---- MODULE Spec2Model ----
(***************************************************************************)
(* Model of the device-state reconciliation logic of cabine-api: the wake  *)
(* and sleep operations of WolService and PcControlService (pre-check,     *)
(* trigger dispatch, polling loop, result), with wall-clock time in        *)
(* milliseconds as read by Date.now().  Further specifications over the    *)
(* same variables: SpecProbe (the reachability probers, strategy by        *)
(* strategy), SpecSsh (the SSH session of a suspend/shutdown dispatcher),  *)
(* SpecBundle (the arrive/leave bundles and the bulk lighting calls).      *)
(***************************************************************************)
EXTENDS Integers, Sequences, FiniteSets, TLC

VARIABLES
    op,            \* the invocation in progress: "none", "WolWake", "WolSleep", "PcWake", "PcSleep"
    pcIp,          \* config.wol.pcIp is set (WolService.pcIp non-empty)
    sshConfigured, \* PcControlService: sshUser and sshKeyPath are both set
    pc,            \* position of the invocation in its code
    now,           \* Date.now(), ms since the invocation was made
    startTime,     \* the local `startTime` of the running loop (Absent before it is set)
    attempts,      \* the local `attempts` counter
    maxWaitTime,   \* the deadline the loop compares against
    result,        \* what the caller receives (NoResult while the promise is pending)
    lastSample,    \* history: what the most recent probe observed
    precheck,      \* history: what the initial pre-check observed
    dispatchCount, \* history: times the Trigger Dispatcher was invoked
    dispatchFailed,\* history: the dispatcher reported a failure
    triggerTime,   \* history: Date.now() when the dispatcher was invoked
    pollStart,     \* history: Date.now() when the polling loop was entered
    samples        \* history: poll samples taken after the trigger

pollerVars == <<op, pcIp, sshConfigured, pc, now, startTime, attempts, maxWaitTime,
                result, lastSample, precheck, dispatchCount, dispatchFailed,
                triggerTime, pollStart, samples>>

\* One run of a reachability prober, strategy by strategy
VARIABLES
    prPc,          \* "idle", "robust" (robustOnlineCheck running), "done"
    prIn,          \* the outcome each strategy has when it is tried
    prTried,       \* history: the strategies invoked so far, in order
    prResult       \* "none", "true", "false" or "thrown"

probeVars == <<prPc, prIn, prTried, prResult>>

\* The SSH session of one suspend/shutdown dispatch
VARIABLES
    sshOp,         \* "idle", "sendSleepCommand", "Pc_sleepPC", "executeSystemCommand"
    sshConn,       \* "none", "connecting", "ready", "ended" (conn.end() called), "error"
    sshExec,       \* "none", "requested", "failed", "running", "closed", "suspended"
    sshExit,       \* exit status the stream reported: "none", "zero", "nonzero"
    sshTimer,      \* the guard timer: "unset", "armed", "cleared", "fired"
    sshSettled,    \* the dispatcher's promise: "pending", "resolved", "rejected"
    sshValue,      \* what the promise settled with
    sshPoll,       \* polling for the offline state has started
    sshExitAtPoll, \* history: sshExit at the moment polling started
    sshClock       \* ms since the dispatcher was called

sshVars == <<sshOp, sshConn, sshExec, sshExit, sshTimer, sshSettled, sshValue, sshPoll,
             sshExitAtPoll, sshClock>>

\* One request to a bundle or bulk-lighting endpoint
VARIABLES
    bOp,           \* "none", "arrive", "leave", "arriveAtOffice", "leaveOffice", "controlAllLights"
    bPc,           \* "idle", "awaitBoth", "awaitAll", "done"
    bConv,         \* the convergence operation: "notStarted", "running", "ok", "fail", "thrown"
    lights,        \* LifxService.lights: each light name's group, or "absent"
    lxPending,     \* light names whose setLightStateById call has not settled
    lxCall,        \* the bulk operation the latest calls belong to: "none", "group", "all"
    lxGroup,       \* setGroupState: "notCalled", "running", "returned"
    lxAll,         \* setAllLightsState: "notCalled", "running", "returned"
    lxGroupRes,    \* the `results` object of setGroupState
    lxAllRes,      \* the `results` object of setAllLightsState
    lxAllOut,      \* history: what each light's call in setAllLightsState resolved to
    lxCalls,       \* history: power commands sent per light, <<by group, by all>>
    v1Lights,      \* lifxService.turnOnAll()/turnOffAll() of the first controller
    bResp          \* the HTTP response (status 0 while none was sent)

bundleVars == <<bOp, bPc, bConv, lights, lxPending, lxCall, lxGroup, lxAll, lxGroupRes,
                lxAllRes, lxAllOut, lxCalls, v1Lights, bResp>>

\* Two wake/poll invocations running interleaved on one event loop
VARIABLES
    iv,            \* per invocation: its parameters, locals, pending await and result
    tNow           \* Date.now() of the process

twoVars == <<iv, tNow>>

\* One HTTP request on its way through a router
VARIABLES
    rqPc,          \* "none", "router" (before the middleware), "handler", "done"
    rqRoute,       \* the route the request is for
    rqHeader,      \* req.headers['x-webhook-secret']: a string, "absent", or "array"
    rqSecret,      \* config.security.webhookSecret
    rqStatus,      \* the status of the response (0 while none was sent)
    rqEffects      \* history: what ran on behalf of the request

authVars == <<rqPc, rqRoute, rqHeader, rqSecret, rqStatus, rqEffects>>

\* One request to the single-light endpoint
VARIABLES
    clPc,          \* "none", "vendor" (setLightStateById awaited), "respond", "done"
    clReg,         \* the light names in LifxService.lights
    clName,        \* req.params.name (0: empty)
    clAction,      \* req.params.action
    clDuration,    \* the transition duration sent to the vendor: "default" (1.0) or "body"
    clVendorOut,   \* what the vendor call came to: "none", "2xx", "other", "error"
    clFound,       \* history: getLight(name) found a light
    clVendorCalls, \* history: calls made to the lighting vendor
    clSuccess,     \* the value of `success` in controlLight
    clResp         \* the HTTP response (status 0 while none was sent)

lightVars == <<clPc, clReg, clName, clAction, clDuration, clVendorOut, clFound, clVendorCalls, clSuccess, clResp>>

\* The light registry of LifxService (a Map keyed by name, in insertion order)
VARIABLES
    regLights,     \* this.lights: the entries in insertion order
    regOp,         \* history: the last registry call, "none", "addLight", "removeLight"
    regLight,      \* history: the argument of the last addLight
    regName,       \* history: the argument of the last removeLight (0 when none)
    regBefore,     \* history: this.lights before the last call
    regRet         \* history: what the last call returned: "none", "void", "true", "false"

registryVars == <<regLights, regOp, regLight, regName, regBefore, regRet>>

\* One call of LifxService.activateScene
VARIABLES
    scPc,          \* "idle", "run" (inside the scene function), "done"
    scName,        \* sceneName
    scReg,         \* this.lights when the call is made
    scQueue,       \* the setLightStateById calls the scene function has still to make
    scCmds,        \* history: the setLightStateById calls made, in order
    scResults,     \* results: per light name "none", "true" or "false"
    scRet          \* "none", "results" (return results), "empty" (return {}), "thrown"

sceneVars == <<scPc, scName, scReg, scQueue, scCmds, scResults, scRet>>

vars == <<pollerVars, probeVars, sshVars, bundleVars, twoVars, authVars, lightVars, registryVars, sceneVars>>

\* What the steps of a wake or sleep invocation leave alone
nonPoller == <<probeVars, sshVars, bundleVars, twoVars, authVars, lightVars, registryVars, sceneVars>>
\* What the steps of a reachability probe leave alone
nonProbe == <<pollerVars, sshVars, bundleVars, twoVars, authVars, lightVars, registryVars, sceneVars>>
\* What the events of an SSH session leave alone
nonSsh == <<pollerVars, probeVars, bundleVars, twoVars, authVars, lightVars, registryVars, sceneVars>>
\* What the steps of a bundle request leave alone
nonBundle == <<pollerVars, probeVars, sshVars, twoVars, authVars, lightVars, registryVars, sceneVars>>
\* What the steps of the interleaved invocations leave alone
nonTwo == <<pollerVars, probeVars, sshVars, bundleVars, authVars, lightVars, registryVars, sceneVars>>
\* What the steps of a routed request leave alone
nonAuth == <<pollerVars, probeVars, sshVars, bundleVars, twoVars, lightVars, registryVars, sceneVars>>
\* What the steps of a single-light request leave alone
nonLight == <<pollerVars, probeVars, sshVars, bundleVars, twoVars, authVars, registryVars, sceneVars>>
\* Everything but the light registry
nonRegistry == <<pollerVars, probeVars, sshVars, bundleVars, twoVars, authVars, lightVars, sceneVars>>
\* Everything but the scene call
nonScene == <<pollerVars, probeVars, sshVars, bundleVars, twoVars, authVars, lightVars, registryVars>>

----------------------------------------------------------------------------
\* Program constants (milliseconds)

PollIntervalMs == 1000
PollTimeoutMs == 30000
DefaultMaxWaitTimeMs == 60000
WakeRetryDelayMs == 1000
SleepRetryDelayMs == 5000
SleepMaxWaitTimeMs == 2 * 60 * 1000
PingTimeoutMs == 3 * 1000
SystemPingTimeoutMs == 1 * 1000
SshGuardTimeoutMs == 5000
SshReadyTimeoutMs == 3000
PcSshReadyTimeoutMs == 5000

\* Bounds of the model
MaxLatencySteps == 6
MaxSshSteps == 12
MaxLights == 2
MaxTwoSteps == 14
MaxStartSteps == 2
LatencyStepMs == PollIntervalMs \div 2

Absent == 0 - 1
NoField == "absent"
NoResult == [kind |-> "pending", success |-> FALSE, attempts |-> Absent,
             elapsedMs |-> Absent, isOnline |-> "absent", via |-> "none"]

\* Latencies an awaited call can take: a grid of LatencyStepMs up to its timeout.
Latencies(timeoutMs) ==
    {s * LatencyStepMs : s \in {t \in 0..MaxLatencySteps : t * LatencyStepMs <= timeoutMs}}

MaxLatencyMs == MaxLatencySteps * LatencyStepMs

\* The deadlines a wake request may carry (req.body.maxWaitTime, default 60000).
WaitTimes == {0 - PollIntervalMs, 0, (5 * PollIntervalMs) \div 2, 5 * PollIntervalMs,
              DefaultMaxWaitTimeMs}

StrategyOutcomes == {"pos", "neg", "err"}

Obs(b) == IF b THEN "online" ELSE "offline"

expectedOnline == op \in {"WolWake", "PcWake"}

----------------------------------------------------------------------------
\* Reachability probers

\* PcControlService.isPCOnline: ping library, errors caught and mapped to false.
Pc_isPCOnline_ErrorIsAlive(out) == IF out = "throw" THEN TRUE ELSE out = "alive"

Pc_isPCOnline(out) == IF out = "throw" THEN FALSE ELSE out = "alive"

\* WolService.isPCOnline: system ping command, false without pcIp or on exec error.
Wol_isPCOnline(ipSet, execError) == IF ~ipSet THEN FALSE ELSE ~execError

\* WolService.robustOnlineCheck over the outcomes of <<ssh, ping library, rdp port,
\* system ping>>: the first positive strategy wins, errors count as negative.
robustOnlineCheck(o) ==
    IF o[1] = "pos" THEN TRUE
    ELSE IF o[2] = "pos" THEN TRUE
    ELSE IF o[3] = "pos" THEN TRUE
    ELSE IF o[4] = "pos" THEN TRUE
    ELSE FALSE

\* Outcomes the four strategies can have under the configuration: isSSHReachable,
\* isPortReachable and isPCOnline resolve false at once when pcIp is not set.
RobustOutcomes(ipSet) ==
    {o \in [1..4 -> StrategyOutcomes] :
        ~ipSet => (o[1] = "neg" /\ o[3] = "neg" /\ o[4] = "neg")}

\* The loop condition of the three polling loops: Date.now() - startTime < maxWaitTime
withinDeadline_Inclusive(t, start, limit) == t - start <= limit

withinDeadline(t, start, limit) == t - start < limit

\* Math.round(ms / 1000) for ms >= 0
RoundSeconds(ms) == (ms + 500) \div 1000

----------------------------------------------------------------------------
\* Results

\* The value a promise resolves to; `via` records the return statement taken:
\* "precheck", "dispatch" (returned from the dispatch step), "poll" (a matching poll
\* sample) or "timeout" (the loop ran out).
Returned(success, att, elapsed, online, via) ==
    [kind |-> "returned", success |-> success, attempts |-> att,
     elapsedMs |-> elapsed, isOnline |-> online, via |-> via]

\* The interleaved invocations, and the frame of one that was not called yet:
\* `ready` is when its pending await resolves, `retAt` when it returned.
Invocations == {1, 2}
IvIdle == [kind |-> "none", pc |-> "idle", maxWaitTime |-> 0, startTime |-> 0,
           attempts |-> 0, samples |-> 0, ready |-> 0, retAt |-> Absent,
           result |-> NoResult]

\* Light names, and a results object with no entry
Lights == 1..MaxLights
NoMap == [l \in Lights |-> "none"]

\* A Light of the registry: name, id, group and whether its tags include 'desk'. An
\* absent or empty id is "".
LightIds == {"", "d1", "d2"}
LightGroups == {"office", "none"}
LightRecords == [name : Lights, id : LightIds, group : LightGroups, desk : BOOLEAN]
NoLight == [name |-> 0, id |-> "", group |-> "none", desk |-> FALSE]

\* res.status(status).json({success, ...}): `pc` and `lights` are the sub-results of
\* the first controller, `wolSent` and `lightResults` those of the second.
Resp(status, success, pcField, lightsField, hasMap, map) ==
    [status |-> status, success |-> success, pc |-> pcField, lights |-> lightsField,
     hasMap |-> hasMap, lightResults |-> map]
NoResp == Resp(0, FALSE, NoField, NoField, FALSE, NoMap)

\* A rejected promise / thrown error.
Thrown == [kind |-> "thrown", success |-> FALSE, attempts |-> Absent,
           elapsedMs |-> Absent, isOnline |-> NoField, via |-> "throw"]

Init ==
    /\ op = "none"
    /\ pcIp = TRUE
    /\ sshConfigured = TRUE
    /\ pc = "idle"
    /\ now = 0
    /\ startTime = Absent
    /\ attempts = 0
    /\ maxWaitTime = 0
    /\ result = NoResult
    /\ lastSample = "none"
    /\ precheck = "none"
    /\ dispatchCount = 0
    /\ dispatchFailed = FALSE
    /\ triggerTime = Absent
    /\ pollStart = Absent
    /\ samples = 0
    /\ prPc = "idle"
    /\ prIn = <<>>
    /\ prTried = <<>>
    /\ prResult = "none"
    /\ sshOp = "idle"
    /\ sshConn = "none"
    /\ sshExec = "none"
    /\ sshExit = "none"
    /\ sshTimer = "unset"
    /\ sshSettled = "pending"
    /\ sshValue = "none"
    /\ sshPoll = FALSE
    /\ sshExitAtPoll = "none"
    /\ sshClock = 0
    /\ bOp = "none"
    /\ bPc = "idle"
    /\ bConv = "notStarted"
    /\ lights = [l \in Lights |-> "absent"]
    /\ lxPending = {}
    /\ lxCall = "none"
    /\ lxGroup = "notCalled"
    /\ lxAll = "notCalled"
    /\ lxGroupRes = NoMap
    /\ lxAllRes = NoMap
    /\ lxAllOut = NoMap
    /\ lxCalls = [l \in Lights |-> <<0, 0>>]
    /\ v1Lights = "notCalled"
    /\ bResp = NoResp
    /\ iv = [i \in Invocations |-> IvIdle]
    /\ tNow = 0
    /\ rqPc = "none"
    /\ rqRoute = "/"
    /\ rqHeader = "absent"
    /\ rqSecret = "s1"
    /\ rqStatus = 0
    /\ rqEffects = {}
    /\ clPc = "none"
    /\ clReg = {}
    /\ clName = 0
    /\ clAction = "on"
    /\ clDuration = "default"
    /\ clVendorOut = "none"
    /\ clFound = FALSE
    /\ clVendorCalls = 0
    /\ clSuccess = FALSE
    /\ clResp = [status |-> 0, message |-> "none"]
    /\ regLights = <<>>
    /\ regOp = "none"
    /\ regLight = NoLight
    /\ regName = 0
    /\ regBefore = <<>>
    /\ regRet = "none"
    /\ scPc = "idle"
    /\ scName = "focus"
    /\ scReg = <<>>
    /\ scQueue = <<>>
    /\ scCmds = <<>>
    /\ scResults = NoMap
    /\ scRet = "none"

history == <<lastSample, precheck, dispatchCount, dispatchFailed, triggerTime, pollStart,
             samples>>
config == <<op, pcIp, sshConfigured>>

----------------------------------------------------------------------------
\* WolService.wakePC(maxWaitTime)

Wol_wakePC_Start ==
    /\ pc = "idle"
    /\ \E mw \in WaitTimes, ip \in BOOLEAN :
        /\ op' = "WolWake"
        /\ pcIp' = ip
        /\ maxWaitTime' = mw
    /\ startTime' = now
    /\ attempts' = 0
    /\ pc' = "precheck"
    /\ UNCHANGED <<sshConfigured, now, result>>
    /\ UNCHANGED history
    /\ UNCHANGED nonPoller

\* The pre-check with the loop entered straight after it, the packet never sent.
Wol_wakePC_Precheck_SkipsDispatch ==
    /\ op = "WolWake" /\ pc = "precheck"
    /\ \E execError \in BOOLEAN, lat \in Latencies(SystemPingTimeoutMs) :
        LET online == Wol_isPCOnline(pcIp, execError) IN
        /\ now' = now + lat
        /\ precheck' = Obs(online)
        /\ lastSample' = Obs(online)
        /\ IF online
           THEN /\ result' = Returned(TRUE, 1, 0, NoField, "precheck")
                /\ pc' = "done"
           ELSE /\ result' = result
                /\ pc' = "loop"
    /\ UNCHANGED <<startTime, attempts, maxWaitTime>>
    /\ UNCHANGED <<dispatchCount, dispatchFailed, triggerTime, pollStart, samples>>
    /\ UNCHANGED config
    /\ UNCHANGED nonPoller

\* if (await this.isPCOnline()) return { success: true, elapsedMs: 0, attempts: 1 }
Wol_wakePC_Precheck ==
    /\ op = "WolWake" /\ pc = "precheck"
    /\ \E execError \in BOOLEAN, lat \in Latencies(SystemPingTimeoutMs) :
        LET online == Wol_isPCOnline(pcIp, execError) IN
        /\ now' = now + lat
        /\ precheck' = Obs(online)
        /\ lastSample' = Obs(online)
        /\ IF online
           THEN /\ result' = Returned(TRUE, 1, 0, NoField, "precheck")
                /\ pc' = "done"
           ELSE /\ result' = result
                /\ pc' = "dispatch"
    /\ UNCHANGED <<startTime, attempts, maxWaitTime>>
    /\ UNCHANGED <<dispatchCount, dispatchFailed, triggerTime, pollStart, samples>>
    /\ UNCHANGED config
    /\ UNCHANGED nonPoller

\* await this.sendWolPacket() (+ the subnet broadcast packet); a rejection lands in
\* the catch block of wakePC, which returns without polling.
Wol_wakePC_Dispatch ==
    /\ op = "WolWake" /\ pc = "dispatch"
    /\ \E sendError \in BOOLEAN, lat \in Latencies(LatencyStepMs) :
        /\ now' = now + lat
        /\ dispatchCount' = dispatchCount + 1
        /\ dispatchFailed' = sendError
        /\ triggerTime' = now
        /\ IF sendError
           THEN /\ result' = Returned(FALSE, attempts, now' - startTime, NoField, "dispatch")
                /\ pc' = "done"
                /\ pollStart' = pollStart
           ELSE /\ result' = result
                /\ pc' = "loop"
                /\ pollStart' = now'
    /\ UNCHANGED <<startTime, attempts, maxWaitTime, lastSample, precheck, samples>>
    /\ UNCHANGED config
    /\ UNCHANGED nonPoller

\* The loop as do { attempts++; ... } while (...): the first sample is taken before
\* the deadline is looked at.
Wol_wakePC_Loop_DoWhile ==
    /\ op = "WolWake" /\ pc = "loop"
    /\ IF attempts = 0 \/ withinDeadline(now, startTime, maxWaitTime)
       THEN /\ attempts' = attempts + 1
            /\ pc' = "probe"
            /\ result' = result
       ELSE /\ attempts' = attempts
            /\ pc' = "done"
            /\ result' = Returned(FALSE, attempts, now - startTime, NoField, "timeout")
    /\ UNCHANGED <<now, startTime, maxWaitTime>>
    /\ UNCHANGED history
    /\ UNCHANGED config
    /\ UNCHANGED nonPoller

\* while (Date.now() - startTime < maxWaitTime) { attempts++; ... }
Wol_wakePC_Loop ==
    /\ op = "WolWake" /\ pc = "loop"
    /\ IF withinDeadline(now, startTime, maxWaitTime)
       THEN /\ attempts' = attempts + 1
            /\ pc' = "probe"
            /\ result' = result
       ELSE /\ attempts' = attempts
            /\ pc' = "done"
            /\ result' = Returned(FALSE, attempts, now - startTime, NoField, "timeout")
    /\ UNCHANGED <<now, startTime, maxWaitTime>>
    /\ UNCHANGED history
    /\ UNCHANGED config
    /\ UNCHANGED nonPoller

\* const isOnline = await this.robustOnlineCheck(); if (isOnline) return {...}
Wol_wakePC_Probe ==
    /\ op = "WolWake" /\ pc = "probe"
    /\ \E o \in RobustOutcomes(pcIp), lat \in Latencies(MaxLatencyMs) :
        LET isOnline == robustOnlineCheck(o) IN
        /\ now' = now + lat
        /\ lastSample' = Obs(isOnline)
        /\ samples' = samples + 1
        /\ IF isOnline
           THEN /\ result' = Returned(TRUE, attempts, now' - startTime, NoField, "poll")
                /\ pc' = "done"
           ELSE /\ result' = result
                /\ pc' = "wait"
    /\ UNCHANGED <<startTime, attempts, maxWaitTime>>
    /\ UNCHANGED <<precheck, dispatchCount, dispatchFailed, triggerTime, pollStart>>
    /\ UNCHANGED config
    /\ UNCHANGED nonPoller

\* await new Promise((resolve) => setTimeout(resolve, 1000))
Wol_wakePC_Wait ==
    /\ op = "WolWake" /\ pc = "wait"
    /\ now' = now + WakeRetryDelayMs
    /\ pc' = "loop"
    /\ UNCHANGED <<startTime, attempts, maxWaitTime, result>>
    /\ UNCHANGED history
    /\ UNCHANGED config
    /\ UNCHANGED nonPoller

----------------------------------------------------------------------------
\* WolService.sleepPC()

Wol_sleepPC_Start ==
    /\ pc = "idle"
    /\ \E ip \in BOOLEAN :
        /\ op' = "WolSleep"
        /\ pcIp' = ip
    /\ maxWaitTime' = SleepMaxWaitTimeMs
    /\ pc' = "precheck"
    /\ UNCHANGED <<sshConfigured, now, startTime, attempts, result>>
    /\ UNCHANGED history
    /\ UNCHANGED nonPoller

\* if (!(await this.isPCOnline())) return true
Wol_sleepPC_Precheck ==
    /\ op = "WolSleep" /\ pc = "precheck"
    /\ \E execError \in BOOLEAN, lat \in Latencies(SystemPingTimeoutMs) :
        LET online == Wol_isPCOnline(pcIp, execError) IN
        /\ now' = now + lat
        /\ precheck' = Obs(online)
        /\ lastSample' = Obs(online)
        /\ IF ~online
           THEN /\ result' = Returned(TRUE, Absent, Absent, NoField, "precheck")
                /\ pc' = "done"
           ELSE /\ result' = result
                /\ pc' = "dispatch"
    /\ UNCHANGED <<startTime, attempts, maxWaitTime>>
    /\ UNCHANGED <<dispatchCount, dispatchFailed, triggerTime, pollStart, samples>>
    /\ UNCHANGED config
    /\ UNCHANGED nonPoller

\* Outcomes of sendSleepCommand: the exec callback without error resolves, an exec
\* error or a connection error rejects, the 5 s guard timer resolves.
SleepCommandOutcomes == {"sent", "exec_error", "conn_error", "guard_timeout"}

sendSleepCommandRejects(out) == out \in {"exec_error", "conn_error"}

\* try { await this.sendSleepCommand() } catch { warn, continue to check status };
\* then const startTime = Date.now()
Wol_sleepPC_Dispatch ==
    /\ op = "WolSleep" /\ pc = "dispatch"
    /\ \E out \in SleepCommandOutcomes, lat \in Latencies(LatencyStepMs) :
        /\ now' = IF out = "guard_timeout" THEN now + SshGuardTimeoutMs ELSE now + lat
        /\ dispatchFailed' = sendSleepCommandRejects(out)
    /\ dispatchCount' = dispatchCount + 1
    /\ triggerTime' = now
    /\ startTime' = now'
    /\ pollStart' = now'
    /\ pc' = "loop"
    /\ UNCHANGED <<attempts, maxWaitTime, result, lastSample, precheck, samples>>
    /\ UNCHANGED config
    /\ UNCHANGED nonPoller

\* while (Date.now() - startTime < maxWaitTime) {...}; return false
Wol_sleepPC_Loop ==
    /\ op = "WolSleep" /\ pc = "loop"
    /\ IF withinDeadline(now, startTime, maxWaitTime)
       THEN /\ pc' = "probe"
            /\ result' = result
       ELSE /\ pc' = "done"
            /\ result' = Returned(FALSE, Absent, Absent, NoField, "timeout")
    /\ UNCHANGED <<now, startTime, attempts, maxWaitTime>>
    /\ UNCHANGED history
    /\ UNCHANGED config
    /\ UNCHANGED nonPoller

\* const pingResult = await ping.promise.probe(this.pcIp), outside any inner try:
\* a rejection reaches the catch block of sleepPC, which rethrows it.
Wol_sleepPC_Probe ==
    /\ op = "WolSleep" /\ pc = "probe"
    /\ \E out \in {"alive", "dead", "throw"}, lat \in Latencies(MaxLatencyMs) :
        /\ now' = now + lat
        /\ samples' = samples + 1
        /\ IF out = "throw"
           THEN /\ result' = Thrown
                /\ pc' = "done"
                /\ lastSample' = "none"
           ELSE /\ lastSample' = Obs(out = "alive")
                /\ IF out # "alive"
                   THEN /\ result' = Returned(TRUE, Absent, Absent, NoField, "poll")
                        /\ pc' = "done"
                   ELSE /\ result' = result
                        /\ pc' = "wait"
    /\ UNCHANGED <<startTime, attempts, maxWaitTime>>
    /\ UNCHANGED <<precheck, dispatchCount, dispatchFailed, triggerTime, pollStart>>
    /\ UNCHANGED config
    /\ UNCHANGED nonPoller

\* await new Promise((resolve) => setTimeout(resolve, 5000))
Wol_sleepPC_Wait_Resend ==
    /\ op = "WolSleep" /\ pc = "wait"
    /\ now' = now + SleepRetryDelayMs
    /\ pc' = "loop"
    /\ dispatchCount' = IF dispatchFailed THEN dispatchCount + 1 ELSE dispatchCount
    /\ UNCHANGED <<startTime, attempts, maxWaitTime, result>>
    /\ UNCHANGED <<lastSample, precheck, dispatchFailed, triggerTime, pollStart, samples>>
    /\ UNCHANGED config
    /\ UNCHANGED nonPoller

Wol_sleepPC_Wait ==
    /\ op = "WolSleep" /\ pc = "wait"
    /\ now' = now + SleepRetryDelayMs
    /\ pc' = "loop"
    /\ UNCHANGED <<startTime, attempts, maxWaitTime, result>>
    /\ UNCHANGED history
    /\ UNCHANGED config
    /\ UNCHANGED nonPoller

----------------------------------------------------------------------------
\* PcControlService, as invoked by WebhookController.arrive / leave / wakePC:
\* the controller pre-checks with isPCOnline and then calls wakePC() or sleepPC().

Pc_Start ==
    /\ pc = "idle"
    /\ \E o \in {"PcWake", "PcSleep"}, ssh \in BOOLEAN :
        /\ op' = o
        /\ sshConfigured' = ssh
    /\ maxWaitTime' = PollTimeoutMs
    /\ pc' = "precheck"
    /\ UNCHANGED <<pcIp, now, startTime, attempts, result>>
    /\ UNCHANGED history
    /\ UNCHANGED nonPoller

\* const isPCOnline = await pcControlService.isPCOnline();
\* arrive:  isPCOnline ? Promise.resolve({success: true, attempts: 0, isOnline: true})  : wakePC()
\* leave:   isPCOnline ? sleepPC() : Promise.resolve({success: true, attempts: 0, isOnline: false})
Pc_Precheck ==
    /\ op \in {"PcWake", "PcSleep"} /\ pc = "precheck"
    /\ \E out \in {"alive", "dead", "throw"}, lat \in Latencies(PingTimeoutMs) :
        LET isPCOnline == Pc_isPCOnline(out) IN
        /\ now' = now + lat
        /\ precheck' = Obs(out = "alive")
        /\ lastSample' = Obs(out = "alive")
        /\ IF isPCOnline = expectedOnline
           THEN /\ result' = Returned(TRUE, 0, Absent, Obs(isPCOnline), "precheck")
                /\ pc' = "done"
           ELSE /\ result' = result
                /\ pc' = "dispatch"
    /\ UNCHANGED <<startTime, attempts, maxWaitTime>>
    /\ UNCHANGED <<dispatchCount, dispatchFailed, triggerTime, pollStart, samples>>
    /\ UNCHANGED config
    /\ UNCHANGED nonPoller

\* Entry of pollForStatusChange: const startTime = Date.now(); let attempts = 0
pollForStatusChange_Enter(t) ==
    /\ startTime' = t
    /\ pollStart' = t
    /\ attempts' = 0
    /\ pc' = "loop"
    /\ result' = result

\* PcControlService.wakePC: wol.wake(mac, callback); an error rejects the promise,
\* otherwise the callback awaits pollForStatusChange(true).
Pc_wakePC_Dispatch ==
    /\ op = "PcWake" /\ pc = "dispatch"
    /\ \E sendError \in BOOLEAN, lat \in Latencies(LatencyStepMs) :
        /\ now' = now + lat
        /\ dispatchFailed' = sendError
        /\ IF sendError
           THEN /\ result' = Thrown
                /\ pc' = "done"
                /\ UNCHANGED <<startTime, attempts, pollStart>>
           ELSE pollForStatusChange_Enter(now')
    /\ dispatchCount' = dispatchCount + 1
    /\ triggerTime' = now
    /\ UNCHANGED <<maxWaitTime, lastSample, precheck, samples>>
    /\ UNCHANGED config
    /\ UNCHANGED nonPoller

\* Outcomes of the SSH part of PcControlService.sleepPC: missing sshUser/sshKeyPath,
\* unreadable key, connection error, exec error, non-zero exit code, exit code 0.
PcSleepOutcomes(sshSet) ==
    IF ~sshSet THEN {"not_configured"}
    ELSE {"key_error", "conn_error", "exec_error", "nonzero_exit", "exit_zero"}

\* PcControlService.sleepPC: every failure resolves {success: false, attempts: 0,
\* isOnline: true}; exit code 0 ends the session and awaits pollForStatusChange(false).
Pc_sleepPC_Dispatch ==
    /\ op = "PcSleep" /\ pc = "dispatch"
    /\ \E out \in PcSleepOutcomes(sshConfigured), lat \in Latencies(LatencyStepMs) :
        /\ now' = IF out \in {"not_configured", "key_error"} THEN now ELSE now + lat
        /\ dispatchFailed' = (out # "exit_zero")
        /\ IF out # "exit_zero"
           THEN /\ result' = Returned(FALSE, 0, Absent, "online", "dispatch")
                /\ pc' = "done"
                /\ UNCHANGED <<startTime, attempts, pollStart>>
           ELSE pollForStatusChange_Enter(now')
    /\ dispatchCount' = dispatchCount + 1
    /\ triggerTime' = now
    /\ UNCHANGED <<maxWaitTime, lastSample, precheck, samples>>
    /\ UNCHANGED config
    /\ UNCHANGED nonPoller

\* while (Date.now() - startTime < timeoutMs)
pollForStatusChange_Loop ==
    /\ op \in {"PcWake", "PcSleep"} /\ pc = "loop"
    /\ pc' = IF withinDeadline(now, startTime, maxWaitTime) THEN "wait" ELSE "final"
    /\ UNCHANGED <<now, startTime, attempts, maxWaitTime, result>>
    /\ UNCHANGED history
    /\ UNCHANGED config
    /\ UNCHANGED nonPoller

\* await new Promise(resolve => setTimeout(resolve, pollIntervalMs)); attempts++
pollForStatusChange_Wait ==
    /\ op \in {"PcWake", "PcSleep"} /\ pc = "wait"
    /\ now' = now + PollIntervalMs
    /\ attempts' = attempts + 1
    /\ pc' = "probe"
    /\ UNCHANGED <<startTime, maxWaitTime, result>>
    /\ UNCHANGED history
    /\ UNCHANGED config
    /\ UNCHANGED nonPoller

\* const currentStatus = await this.isPCOnline();
\* if (currentStatus === expectedOnline)
\*   return { success: true, attempts: elapsedSeconds, isOnline: currentStatus }
pollForStatusChange_Probe ==
    /\ op \in {"PcWake", "PcSleep"} /\ pc = "probe"
    /\ \E out \in {"alive", "dead", "throw"}, lat \in Latencies(PingTimeoutMs) :
        LET currentStatus == Pc_isPCOnline(out) IN
        /\ now' = now + lat
        /\ lastSample' = Obs(out = "alive")
        /\ samples' = samples + 1
        /\ IF currentStatus = expectedOnline
           THEN /\ result' = Returned(TRUE, RoundSeconds(now' - startTime), Absent,
                                      Obs(currentStatus), "poll")
                /\ pc' = "done"
           ELSE /\ result' = result
                /\ pc' = "loop"
    /\ UNCHANGED <<startTime, attempts, maxWaitTime>>
    /\ UNCHANGED <<precheck, dispatchCount, dispatchFailed, triggerTime, pollStart>>
    /\ UNCHANGED config
    /\ UNCHANGED nonPoller

\* const elapsedSeconds = Math.round((Date.now() - startTime) / 1000);
\* const finalStatus = await this.isPCOnline();
\* return { success: false, attempts: elapsedSeconds, isOnline: finalStatus }
pollForStatusChange_Final ==
    /\ op \in {"PcWake", "PcSleep"} /\ pc = "final"
    /\ \E out \in {"alive", "dead", "throw"}, lat \in Latencies(PingTimeoutMs) :
        LET finalStatus == Pc_isPCOnline(out) IN
        /\ now' = now + lat
        /\ lastSample' = Obs(out = "alive")
        /\ result' = Returned(FALSE, RoundSeconds(now - startTime), Absent,
                              Obs(finalStatus), "timeout")
    /\ pc' = "done"
    /\ UNCHANGED <<startTime, attempts, maxWaitTime>>
    /\ UNCHANGED <<precheck, dispatchCount, dispatchFailed, triggerTime, pollStart, samples>>
    /\ UNCHANGED config
    /\ UNCHANGED nonPoller

Next ==
    \/ Wol_wakePC_Start
    \/ Wol_wakePC_Precheck
    \/ Wol_wakePC_Dispatch
    \/ Wol_wakePC_Loop
    \/ Wol_wakePC_Probe
    \/ Wol_wakePC_Wait
    \/ Wol_sleepPC_Start
    \/ Wol_sleepPC_Precheck
    \/ Wol_sleepPC_Dispatch
    \/ Wol_sleepPC_Loop
    \/ Wol_sleepPC_Probe
    \/ Wol_sleepPC_Wait
    \/ Pc_Start
    \/ Pc_Precheck
    \/ Pc_wakePC_Dispatch
    \/ Pc_sleepPC_Dispatch
    \/ pollForStatusChange_Loop
    \/ pollForStatusChange_Wait
    \/ pollForStatusChange_Probe
    \/ pollForStatusChange_Final

Spec == Init /\ [][Next]_vars

----------------------------------------------------------------------------
\* The reachability probers, one strategy at a time

\* One try block of robustOnlineCheck: `if (reachable) return true`, with a thrown
\* error swallowed by the empty catch.
StrategyAffirms_ErrorCounts(out) == out # "neg"

StrategyAffirms(out) == out = "pos"

\* The strategies of robustOnlineCheck, in the order of its try blocks.
RobustStrategies == <<"isSSHReachable", "ping.promise.probe", "isPortReachable(3389)",
                      "isPCOnline">>

robustOnlineCheck_Start ==
    /\ prPc = "idle"
    /\ \E ip \in BOOLEAN : \E o \in RobustOutcomes(ip) : prIn' = o
    /\ prPc' = "robust"
    /\ UNCHANGED <<prTried, prResult>>
    /\ UNCHANGED nonProbe

\* The next try block: a positive strategy returns true, after the last block the
\* function returns false.
robustOnlineCheck_Strategy ==
    /\ prPc = "robust"
    /\ LET i == Len(prTried) + 1 IN
        /\ prTried' = Append(prTried, i)
        /\ IF StrategyAffirms(prIn[i])
           THEN prResult' = "true" /\ prPc' = "done"
           ELSE IF i = Len(RobustStrategies)
                THEN prResult' = "false" /\ prPc' = "done"
                ELSE prResult' = prResult /\ prPc' = prPc
    /\ UNCHANGED prIn
    /\ UNCHANGED nonProbe

\* PcControlService.isPCOnline: the single ping strategy inside try/catch.
Pc_isPCOnline_Run ==
    /\ prPc = "idle"
    /\ \E out \in {"alive", "dead", "throw"} :
        /\ prIn' = <<out>>
        /\ prResult' = IF Pc_isPCOnline(out) THEN "true" ELSE "false"
    /\ prTried' = <<1>>
    /\ prPc' = "done"
    /\ UNCHANGED nonProbe

NextProbe ==
    \/ robustOnlineCheck_Start
    \/ robustOnlineCheck_Strategy
    \/ Pc_isPCOnline_Run

SpecProbe == Init /\ [][NextProbe]_vars

----------------------------------------------------------------------------
\* The SSH session of a suspend/shutdown dispatcher, event by event

ReadyTimeoutMs(o) == IF o = "sendSleepCommand" THEN SshReadyTimeoutMs ELSE PcSshReadyTimeoutMs

\* resolve(...) / reject(...): only the first settlement of a promise counts.
Ssh_Settle(how, value) ==
    IF sshSettled = "pending"
    THEN sshSettled' = how /\ sshValue' = value
    ELSE UNCHANGED <<sshSettled, sshValue>>

\* WolService.sendSleepCommand: new Client(), the guard timer is armed, conn.connect().
sendSleepCommand_Call ==
    /\ sshOp = "idle"
    /\ sshOp' = "sendSleepCommand"
    /\ sshTimer' = "armed"
    /\ sshConn' = "connecting"
    /\ UNCHANGED <<sshExec, sshExit, sshSettled, sshValue, sshPoll, sshExitAtPoll, sshClock>>
    /\ UNCHANGED nonSsh

\* PcControlService.sleepPC: the credential guards, then readFileSync and conn.connect()
\* inside try/catch.
Pc_sleepPC_Call ==
    /\ sshOp = "idle"
    /\ sshOp' = "Pc_sleepPC"
    /\ \E configured \in BOOLEAN, keyReadable \in BOOLEAN :
        IF configured /\ keyReadable
        THEN sshConn' = "connecting" /\ UNCHANGED <<sshSettled, sshValue>>
        ELSE sshConn' = "none" /\ Ssh_Settle("resolved", "failure")
    /\ UNCHANGED <<sshExec, sshExit, sshTimer, sshPoll, sshExitAtPoll, sshClock>>
    /\ UNCHANGED nonSsh

\* PcControlService.executeSystemCommand: the credential guard, then conn.connect().
executeSystemCommand_Call ==
    /\ sshOp = "idle"
    /\ sshOp' = "executeSystemCommand"
    /\ \E configured \in BOOLEAN :
        IF configured
        THEN sshConn' = "connecting" /\ UNCHANGED <<sshSettled, sshValue>>
        ELSE sshConn' = "none" /\ Ssh_Settle("resolved", "false")
    /\ UNCHANGED <<sshExec, sshExit, sshTimer, sshPoll, sshExitAtPoll, sshClock>>
    /\ UNCHANGED nonSsh

\* conn.on('ready'): the session is open and conn.exec(command, callback) is called.
Ssh_Ready ==
    /\ sshConn = "connecting"
    /\ sshClock < ReadyTimeoutMs(sshOp)
    /\ sshConn' = "ready"
    /\ sshExec' = "requested"
    /\ UNCHANGED <<sshOp, sshExit, sshTimer, sshSettled, sshValue, sshPoll, sshExitAtPoll,
                   sshClock>>
    /\ UNCHANGED nonSsh

\* conn.on('error') (the ready timeout included): the connection is gone; no handler
\* calls conn.end().  The handler is never removed, so an error of a session that
\* conn.end() is closing (the peer vanished before the close completed) runs it too.
Ssh_ConnError ==
    /\ sshConn \in {"connecting", "ready", "ended"}
    /\ sshConn' = "error"
    /\ IF sshOp = "sendSleepCommand"
       THEN /\ sshTimer' = IF sshTimer = "armed" THEN "cleared" ELSE sshTimer
            /\ Ssh_Settle("rejected", "error")
       ELSE /\ UNCHANGED sshTimer
            /\ Ssh_Settle("resolved", IF sshOp = "Pc_sleepPC" THEN "failure" ELSE "false")
    /\ UNCHANGED <<sshOp, sshExec, sshExit, sshPoll, sshExitAtPoll, sshClock>>
    /\ UNCHANGED nonSsh

\* The exec callback of sendSleepCommand: clearTimeout, conn.end(), reject(err) or resolve().
sendSleepCommand_ExecCallback ==
    /\ sshOp = "sendSleepCommand"
    /\ sshConn = "ready" /\ sshExec = "requested"
    /\ \E err \in BOOLEAN :
        /\ sshExec' = IF err THEN "failed" ELSE "running"
        /\ IF err THEN Ssh_Settle("rejected", "error") ELSE Ssh_Settle("resolved", "void")
    /\ sshTimer' = IF sshTimer = "armed" THEN "cleared" ELSE sshTimer
    /\ sshConn' = "ended"
    /\ UNCHANGED <<sshOp, sshExit, sshPoll, sshExitAtPoll, sshClock>>
    /\ UNCHANGED nonSsh

\* The guard timer of sendSleepCommand: resolve(), and nothing else.
sendSleepCommand_GuardTimer ==
    /\ sshOp = "sendSleepCommand"
    /\ sshTimer = "armed"
    /\ sshClock >= SshGuardTimeoutMs
    /\ sshTimer' = "fired"
    /\ Ssh_Settle("resolved", "void")
    /\ UNCHANGED <<sshOp, sshConn, sshExec, sshExit, sshPoll, sshExitAtPoll, sshClock>>
    /\ UNCHANGED nonSsh

\* WolService.sleepPC after `await this.sendSleepCommand()` (inside try/catch): the
\* polling loop starts.
Wol_sleepPC_AfterDispatch ==
    /\ sshOp = "sendSleepCommand"
    /\ sshSettled # "pending"
    /\ ~sshPoll
    /\ sshPoll' = TRUE
    /\ sshExitAtPoll' = sshExit
    /\ UNCHANGED <<sshOp, sshConn, sshExec, sshExit, sshTimer, sshSettled, sshValue, sshClock>>
    /\ UNCHANGED nonSsh

\* The exec callback of PcControlService.sleepPC / executeSystemCommand: on err
\* conn.end() and resolve; otherwise the stream handlers are registered.
Pc_ExecCallback ==
    /\ sshOp \in {"Pc_sleepPC", "executeSystemCommand"}
    /\ sshConn = "ready" /\ sshExec = "requested"
    /\ \E err \in BOOLEAN :
        IF err
        THEN /\ sshExec' = "failed"
             /\ sshConn' = "ended"
             /\ Ssh_Settle("resolved", IF sshOp = "Pc_sleepPC" THEN "failure" ELSE "false")
        ELSE /\ sshExec' = "running"
             /\ UNCHANGED <<sshConn, sshSettled, sshValue>>
    /\ UNCHANGED <<sshOp, sshExit, sshTimer, sshPoll, sshExitAtPoll, sshClock>>
    /\ UNCHANGED nonSsh

\* stream.on('close', code): conn.end(); with code 0 sleepPC starts
\* pollForStatusChange(false) and executeSystemCommand resolves true.
Pc_StreamClose ==
    /\ sshOp \in {"Pc_sleepPC", "executeSystemCommand"}
    /\ sshConn = "ready" /\ sshExec = "running"
    /\ \E code \in {"zero", "nonzero"} :
        /\ sshExit' = code
        /\ IF code = "zero"
           THEN IF sshOp = "Pc_sleepPC"
                THEN /\ sshPoll' = TRUE
                     /\ sshExitAtPoll' = code
                     /\ UNCHANGED <<sshSettled, sshValue>>
                ELSE /\ Ssh_Settle("resolved", "true")
                     /\ UNCHANGED <<sshPoll, sshExitAtPoll>>
           ELSE /\ Ssh_Settle("resolved", IF sshOp = "Pc_sleepPC" THEN "failure" ELSE "false")
                /\ UNCHANGED <<sshPoll, sshExitAtPoll>>
    /\ sshExec' = "closed"
    /\ sshConn' = "ended"
    /\ UNCHANGED <<sshOp, sshTimer, sshClock>>
    /\ UNCHANGED nonSsh

\* `systemctl suspend` takes effect before the exit status is delivered: the host is
\* suspended, the stream's 'close' event does not arrive, and the session stays open
\* (no keepalive is configured, so no 'error' is due either).
Pc_HostSuspends ==
    /\ sshOp = "Pc_sleepPC"
    /\ sshConn = "ready" /\ sshExec = "running"
    /\ sshExec' = "suspended"
    /\ UNCHANGED <<sshOp, sshConn, sshExit, sshTimer, sshSettled, sshValue, sshPoll,
                   sshExitAtPoll, sshClock>>
    /\ UNCHANGED nonSsh

\* const result = await this.pollForStatusChange(false); resolve(result)
Pc_sleepPC_PollResolved ==
    /\ sshOp = "Pc_sleepPC"
    /\ sshPoll
    /\ sshSettled = "pending"
    /\ Ssh_Settle("resolved", "pollResult")
    /\ UNCHANGED <<sshOp, sshConn, sshExec, sshExit, sshTimer, sshPoll, sshExitAtPoll,
                   sshClock>>
    /\ UNCHANGED nonSsh

\* Time passes; the ready timeout and the guard timer fire when they are due.
Ssh_Tick ==
    /\ sshOp # "idle"
    /\ sshClock < MaxSshSteps * LatencyStepMs
    /\ ~(sshConn = "connecting" /\ sshClock >= ReadyTimeoutMs(sshOp))
    /\ ~(sshTimer = "armed" /\ sshClock >= SshGuardTimeoutMs)
    /\ sshClock' = sshClock + LatencyStepMs
    /\ UNCHANGED <<sshOp, sshConn, sshExec, sshExit, sshTimer, sshSettled, sshValue, sshPoll,
                   sshExitAtPoll>>
    /\ UNCHANGED nonSsh

NextSsh ==
    \/ sendSleepCommand_Call
    \/ Pc_sleepPC_Call
    \/ executeSystemCommand_Call
    \/ Ssh_Ready
    \/ Ssh_ConnError
    \/ sendSleepCommand_ExecCallback
    \/ sendSleepCommand_GuardTimer
    \/ Wol_sleepPC_AfterDispatch
    \/ Pc_ExecCallback
    \/ Pc_StreamClose
    \/ Pc_HostSuspends
    \/ Pc_sleepPC_PollResolved
    \/ Ssh_Tick

SpecSsh == Init /\ [][NextSsh]_vars

\* The ready timeout of conn.connect(): the 'error' event that is due once the
\* session has not become ready in time.
Ssh_ReadyTimeout ==
    /\ sshConn = "connecting"
    /\ sshClock >= ReadyTimeoutMs(sshOp)
    /\ Ssh_ConnError

\* What the runtime guarantees: time passes, due timers fire, registered callbacks
\* of events that have happened run, and the poller returns.  No 'error' event other
\* than the ready timeout and no 'close' of a suspended host is guaranteed.
SshFairness ==
    /\ WF_vars(Ssh_Tick)
    /\ WF_vars(Ssh_ReadyTimeout)
    /\ WF_vars(Ssh_Ready)
    /\ WF_vars(sendSleepCommand_ExecCallback)
    /\ WF_vars(sendSleepCommand_GuardTimer)
    /\ WF_vars(Wol_sleepPC_AfterDispatch)
    /\ WF_vars(Pc_ExecCallback)
    /\ WF_vars(Pc_StreamClose)
    /\ WF_vars(Pc_sleepPC_PollResolved)

SpecSshLive == Init /\ [][NextSsh]_vars /\ SshFairness

----------------------------------------------------------------------------
\* The arrive/leave bundles and the bulk lighting operations

V1Bundles == {"arrive", "leave"}
V2Bundles == {"arriveAtOffice", "leaveOffice"}
Bundles == V1Bundles \cup V2Bundles

\* How the convergence operation of each bundle can settle: PcControlService.wakePC
\* rejects when wol.wake fails, WolService.sleepPC rethrows a rejected probe; the
\* other two never reject.
ConvergenceOutcomes(b) ==
    IF b \in {"arrive", "leaveOffice"} THEN {"ok", "fail", "thrown"} ELSE {"ok", "fail"}

\* getAllLights() and getLightsByGroup(group)
getAllLights(reg) == {l \in Lights : reg[l] # "absent"}
getLightsByGroup_Unfiltered(reg, group) == getAllLights(reg)

getLightsByGroup(reg, group) == {l \in getAllLights(reg) : reg[l] = group}

\* Object.values(lightResults).filter((result) => result === true).length
successCount(map) == Cardinality({l \in Lights : map[l] = "true"})

BoolField(b) == IF b THEN "true" ELSE "false"

\* The top-level `success` of a bundle response that is not the catch block's.
BundleSuccess_Derived(pcSuccess, lightsSuccess) == pcSuccess /\ lightsSuccess

BundleSuccess(pcSuccess, lightsSuccess) == TRUE

\* await Promise.all(promises) in setAllLightsState
AllSettled_First(known, pending) == pending # known \/ known = {}

AllSettled(known, pending) == pending = {}

\* One setLightStateById call per light of `ls`, issued in one forEach.
IssueCalls(ls, which) ==
    /\ lxPending' = ls
    /\ lxCall' = which
    /\ lxCalls' = [l \in Lights |->
                     IF l \in ls
                     THEN IF which = "group"
                          THEN <<lxCalls[l][1] + 1, lxCalls[l][2]>>
                          ELSE <<lxCalls[l][1], lxCalls[l][2] + 1>>
                     ELSE lxCalls[l]]

\* setAllLightsState(state) up to its await.
setAllLightsState_Call(reg) ==
    /\ lxAll' = "running"
    /\ IssueCalls(getAllLights(reg), "all")

\* arrive / leave of the first controller: the pre-check, then Promise.allSettled of
\* the convergence operation (or an already-resolved result) and the lighting call.
V1Bundle_Call ==
    /\ bOp = "none"
    /\ \E b \in V1Bundles, isPCOnline \in BOOLEAN :
        /\ bOp' = b
        /\ bConv' = IF isPCOnline = (b = "arrive") THEN "ok" ELSE "running"
    /\ v1Lights' = "running"
    /\ bPc' = "awaitBoth"
    /\ UNCHANGED <<lights, lxPending, lxCall, lxGroup, lxAll, lxGroupRes, lxAllRes, lxAllOut,
                   lxCalls, bResp>>
    /\ UNCHANGED nonBundle

\* lifxService.turnOnAll() / turnOffAll() of the first controller settles.
V1Lights_Settle ==
    /\ v1Lights = "running"
    /\ \E out \in {"true", "false", "rejected"} : v1Lights' = out
    /\ UNCHANGED <<bOp, bPc, bConv, lights, lxPending, lxCall, lxGroup, lxAll, lxGroupRes,
                   lxAllRes, lxAllOut, lxCalls, bResp>>
    /\ UNCHANGED nonBundle

\* After Promise.allSettled: pcSuccess, lightsSuccess and the 200 response.
V1Bundle_Respond ==
    /\ bOp \in V1Bundles /\ bPc = "awaitBoth"
    /\ bConv # "running" /\ v1Lights # "running"
    /\ LET pcSuccess == bConv = "ok"
           lightsSuccess == v1Lights = "true"
       IN bResp' = Resp(200, BundleSuccess(pcSuccess, lightsSuccess), BoolField(pcSuccess),
                        BoolField(lightsSuccess), FALSE, NoMap)
    /\ bPc' = "done"
    /\ UNCHANGED <<bOp, bConv, lights, lxPending, lxCall, lxGroup, lxAll, lxGroupRes, lxAllRes,
                   lxAllOut, lxCalls, v1Lights>>
    /\ UNCHANGED nonBundle

\* arriveAtOffice / leaveOffice: Promise.all of the convergence operation and
\* turnOnGroup/turnOffGroup('office'); setGroupState returns {} at once when the
\* group has no light.
V2Bundle_Call ==
    /\ bOp = "none"
    /\ \E b \in V2Bundles, reg \in [Lights -> {"absent", "office", "desk"}] :
        /\ bOp' = b
        /\ lights' = reg
        /\ IF getLightsByGroup(reg, "office") = {}
           THEN /\ lxGroup' = "returned"
                /\ UNCHANGED <<lxPending, lxCall, lxCalls>>
           ELSE /\ lxGroup' = "running"
                /\ IssueCalls(getLightsByGroup(reg, "office"), "group")
    /\ bConv' = "running"
    /\ bPc' = "awaitBoth"
    /\ UNCHANGED <<lxAll, lxGroupRes, lxAllRes, lxAllOut, v1Lights, bResp>>
    /\ UNCHANGED nonBundle

\* The convergence operation settles. A rejection rejects Promise.all, and the catch
\* block answers 500; Promise.allSettled keeps waiting for the lighting call.
Convergence_Settle ==
    /\ bConv = "running"
    /\ \E out \in ConvergenceOutcomes(bOp) :
        /\ bConv' = out
        /\ IF out = "thrown" /\ bOp \in V2Bundles
           THEN /\ bResp' = Resp(500, FALSE, NoField, NoField, FALSE, NoMap)
                /\ bPc' = "done"
           ELSE UNCHANGED <<bResp, bPc>>
    /\ UNCHANGED <<bOp, lights, lxPending, lxCall, lxGroup, lxAll, lxGroupRes, lxAllRes,
                   lxAllOut, lxCalls, v1Lights>>
    /\ UNCHANGED nonBundle

\* One setLightStateById call resolves (it never rejects) and its .then stores the
\* value under the light's name.
setLightStateById_Settle ==
    /\ \E l \in lxPending, ok \in {"true", "false"} :
        /\ lxPending' = lxPending \ {l}
        /\ IF lxCall = "group"
           THEN /\ lxGroupRes' = [lxGroupRes EXCEPT ![l] = ok]
                /\ UNCHANGED <<lxAllRes, lxAllOut>>
           ELSE /\ lxAllRes' = [lxAllRes EXCEPT ![l] = ok]
                /\ lxAllOut' = [lxAllOut EXCEPT ![l] = ok]
                /\ UNCHANGED lxGroupRes
    /\ UNCHANGED <<bOp, bPc, bConv, lights, lxCall, lxGroup, lxAll, lxCalls, v1Lights, bResp>>
    /\ UNCHANGED nonBundle

\* await Promise.all(promises); return results -- of setGroupState
setGroupState_Return ==
    /\ lxGroup = "running"
    /\ lxPending = {}
    /\ lxGroup' = "returned"
    /\ UNCHANGED <<bOp, bPc, bConv, lights, lxPending, lxCall, lxAll, lxGroupRes, lxAllRes,
                   lxAllOut, lxCalls, v1Lights, bResp>>
    /\ UNCHANGED nonBundle

\* await Promise.all(promises); return results -- of setAllLightsState
setAllLightsState_Return ==
    /\ lxAll = "running"
    /\ AllSettled(getAllLights(lights), lxPending)
    /\ lxAll' = "returned"
    /\ UNCHANGED <<bOp, bPc, bConv, lights, lxPending, lxCall, lxGroup, lxGroupRes, lxAllRes,
                   lxAllOut, lxCalls, v1Lights, bResp>>
    /\ UNCHANGED nonBundle

PromiseAllResolved_GroupOnly(conv, group) == group = "returned"

\* await Promise.all([wolService.wakePC(), lifxService.turnOnGroup('office', 1.0)])
\* resumes the handler once both promises have resolved.
PromiseAllResolved(conv, group) == conv \in {"ok", "fail"} /\ group = "returned"

\* After Promise.all resolved: with successCount 0 the all-lights call is awaited,
\* otherwise the 200 response carries wolSent and lightResults.
V2Bundle_AfterBoth ==
    /\ bOp \in V2Bundles /\ bPc = "awaitBoth"
    /\ PromiseAllResolved(bConv, lxGroup)
    /\ IF successCount(lxGroupRes) = 0
       THEN /\ setAllLightsState_Call(lights)
            /\ bPc' = "awaitAll"
            /\ UNCHANGED bResp
       ELSE /\ bResp' = Resp(200, BundleSuccess(bConv = "ok", TRUE), BoolField(bConv = "ok"),
                             NoField, TRUE, lxGroupRes)
            /\ bPc' = "done"
            /\ UNCHANGED <<lxAll, lxPending, lxCall, lxCalls>>
    /\ UNCHANGED <<bOp, bConv, lights, lxGroup, lxGroupRes, lxAllRes, lxAllOut, v1Lights>>
    /\ UNCHANGED nonBundle

\* After `await lifxService.turnOnAll(1.0)`, whose value is dropped: the 200 response
\* carries the lightResults of the group call.
V2Bundle_AfterFallback ==
    /\ bOp \in V2Bundles /\ bPc = "awaitAll"
    /\ lxAll = "returned"
    /\ bResp' = Resp(200, BundleSuccess(bConv = "ok", FALSE), BoolField(bConv = "ok"),
                     NoField, TRUE, lxGroupRes)
    /\ bPc' = "done"
    /\ UNCHANGED <<bOp, bConv, lights, lxPending, lxCall, lxGroup, lxAll, lxGroupRes, lxAllRes,
                   lxAllOut, lxCalls, v1Lights>>
    /\ UNCHANGED nonBundle

\* controlAllLights with action on/off: results = await lifxService.turnOnAll(duration)
controlAllLights_Call ==
    /\ bOp = "none"
    /\ bOp' = "controlAllLights"
    /\ \E reg \in [Lights -> {"absent", "office", "desk"}] :
        /\ lights' = reg
        /\ setAllLightsState_Call(reg)
    /\ bPc' = "awaitAll"
    /\ UNCHANGED <<bConv, lxGroup, lxGroupRes, lxAllRes, lxAllOut, v1Lights, bResp>>
    /\ UNCHANGED nonBundle

\* 200 with the results when some light succeeded, 404 otherwise.
controlAllLights_Respond ==
    /\ bOp = "controlAllLights" /\ bPc = "awaitAll"
    /\ lxAll = "returned"
    /\ bResp' = IF successCount(lxAllRes) > 0
                THEN Resp(200, TRUE, NoField, NoField, TRUE, lxAllRes)
                ELSE Resp(404, FALSE, NoField, NoField, FALSE, NoMap)
    /\ bPc' = "done"
    /\ UNCHANGED <<bOp, bConv, lights, lxPending, lxCall, lxGroup, lxAll, lxGroupRes, lxAllRes,
                   lxAllOut, lxCalls, v1Lights>>
    /\ UNCHANGED nonBundle

NextBundle ==
    \/ V1Bundle_Call
    \/ V1Lights_Settle
    \/ V1Bundle_Respond
    \/ V2Bundle_Call
    \/ Convergence_Settle
    \/ setLightStateById_Settle
    \/ setGroupState_Return
    \/ setAllLightsState_Return
    \/ V2Bundle_AfterBoth
    \/ V2Bundle_AfterFallback
    \/ controlAllLights_Call
    \/ controlAllLights_Respond

SpecBundle == Init /\ [][NextBundle]_vars

----------------------------------------------------------------------------
\* The HTTP responses of the device-action endpoints, from the service's result

\* res.status(status).json(body): the status, the body's success flag, its message,
\* its keys and the online flag it reports.
Http(status, success, message, fields, online) ==
    [status |-> status, success |-> success, message |-> message, fields |-> fields,
     isOnline |-> online]

\* The catch block of every device-action endpoint.
HttpError(message) == Http(500, FALSE, message, {"success", "message", "error"}, NoField)

\* wakePC of the first controller.
Pc_wakePC_Response(r) ==
    IF r.kind = "thrown" THEN HttpError("Failed to send Wake-on-LAN packet")
    ELSE IF r.via = "precheck"
    THEN Http(200, TRUE, "PC is already online", {"success", "message", "isPCOnline"}, "online")
    ELSE Http(200, TRUE,
              IF r.success THEN "Wake-on-LAN successful - PC came online"
              ELSE "Wake-on-LAN packet sent - PC did not respond within 30 seconds",
              {"success", "message", "isPCOnline", "waitTimeSeconds"}, r.isOnline)

\* sleepPC of the first controller: res.status(result.success ? 200 : 500).
Pc_sleepPC_Response(r) ==
    IF r.kind = "thrown" THEN HttpError("Failed to send sleep command to PC")
    ELSE IF r.via = "precheck"
    THEN Http(400, FALSE, "PC appears to be offline already",
              {"success", "message", "isPCOnline"}, "offline")
    ELSE Http(IF r.success THEN 200 ELSE 500, r.success,
              IF r.success THEN "Sleep successful - PC went offline"
              ELSE "Sleep command sent - PC did not go offline within 30 seconds",
              {"success", "message", "isPCOnline", "waitTimeSeconds"}, r.isOnline)

\* wakePC of the second controller, verification not skipped.
Wol_wakePC_Response(r) ==
    IF r.kind = "thrown" THEN HttpError("Failed to send Wake-on-LAN packet")
    ELSE IF r.success
    THEN Http(200, TRUE, "PC successfully woken up",
              {"success", "message", "isOnline", "attempts", "elapsedTime"}, "online")
    ELSE Http(202, TRUE, "Wake-on-LAN packet sent, but PC did not come online",
              {"success", "message", "isOnline", "attempts", "suggestion"}, "offline")

\* sleepPC of the second controller: the value of `await wolService.sleepPC()` is
\* not looked at.
Wol_sleepPC_Response(r) ==
    IF r.kind = "thrown" THEN HttpError("Failed to send sleep command to PC")
    ELSE Http(200, TRUE, "Sleep command sent to PC successfully", {"success", "message"},
              NoField)

ControllerResponse(o, r) ==
    CASE o = "PcWake" -> Pc_wakePC_Response(r)
      [] o = "PcSleep" -> Pc_sleepPC_Response(r)
      [] o = "WolWake" -> Wol_wakePC_Response(r)
      [] OTHER -> Wol_sleepPC_Response(r)

----------------------------------------------------------------------------
\* Two invocations interleaved: WolService.wakePC(maxWaitTime) and
\* PcControlService.pollForStatusChange, each with its own locals

\* The deadlines of the interleaved wake requests, and the latencies of their awaits.
TwoWaitTimes == {(3 * PollIntervalMs) \div 2, 3 * PollIntervalMs}
TwoLatencies == {0, LatencyStepMs}
\* The deadline pollForStatusChange is given in the interleaved runs.
TwoPollTimeoutMs == 2 * PollIntervalMs

\* The deadline invocation i compares against: its own parameter.
deadlineOf_Shared(st, i) == st[1].maxWaitTime

deadlineOf(st, i) == st[i].maxWaitTime

\* The await of invocation i resolves now.
Resumes(i, at) == iv[i].pc = at /\ iv[i].ready = tNow

Two_Return(i, res) ==
    iv' = [iv EXCEPT ![i].pc = "done", ![i].result = res, ![i].retAt = tNow]

\* wakePC is called: const startTime = Date.now(); let attempts = 0; await isPCOnline()
Two_wakePC_Call(i) ==
    /\ iv[i].pc = "idle"
    /\ tNow <= MaxStartSteps * LatencyStepMs
    /\ \E mw \in TwoWaitTimes, lat \in TwoLatencies :
        iv' = [iv EXCEPT ![i] = [IvIdle EXCEPT !.kind = "WolWake", !.pc = "precheck",
                                               !.maxWaitTime = mw, !.startTime = tNow,
                                               !.ready = tNow + lat]]
    /\ UNCHANGED tNow
    /\ UNCHANGED nonTwo

\* The pre-check resolved: return when online, otherwise await sendWolPacket().
Two_wakePC_Precheck(i) ==
    /\ iv[i].kind = "WolWake" /\ Resumes(i, "precheck")
    /\ \E online \in BOOLEAN, lat \in TwoLatencies :
        IF online
        THEN Two_Return(i, Returned(TRUE, 1, 0, NoField, "precheck"))
        ELSE iv' = [iv EXCEPT ![i].pc = "dispatch", ![i].ready = tNow + lat]
    /\ UNCHANGED tNow
    /\ UNCHANGED nonTwo

\* while (Date.now() - startTime < maxWaitTime) { attempts++; await robustOnlineCheck()
\* ... } return { success: false, elapsedMs, attempts }
Two_wakePC_LoopTest(i) ==
    IF withinDeadline(tNow, iv[i].startTime, deadlineOf(iv, i))
    THEN \E lat \in TwoLatencies :
            iv' = [iv EXCEPT ![i].attempts = @ + 1, ![i].pc = "probe",
                             ![i].ready = tNow + lat]
    ELSE Two_Return(i, Returned(FALSE, iv[i].attempts, tNow - iv[i].startTime, NoField,
                                "timeout"))

\* sendWolPacket settled: a rejection returns from the catch block, otherwise the
\* loop is entered.
Two_wakePC_Dispatch(i) ==
    /\ iv[i].kind = "WolWake" /\ Resumes(i, "dispatch")
    /\ \E sendError \in BOOLEAN :
        IF sendError
        THEN Two_Return(i, Returned(FALSE, iv[i].attempts, tNow - iv[i].startTime, NoField,
                                    "dispatch"))
        ELSE Two_wakePC_LoopTest(i)
    /\ UNCHANGED tNow
    /\ UNCHANGED nonTwo

\* robustOnlineCheck resolved: return when online, otherwise await the 1000 ms wait.
Two_wakePC_Probe(i) ==
    /\ iv[i].kind = "WolWake" /\ Resumes(i, "probe")
    /\ \E isOnline \in BOOLEAN :
        IF isOnline
        THEN iv' = [iv EXCEPT ![i].samples = @ + 1, ![i].pc = "done", ![i].retAt = tNow,
                              ![i].result = Returned(TRUE, iv[i].attempts,
                                                     tNow - iv[i].startTime, NoField, "poll")]
        ELSE iv' = [iv EXCEPT ![i].samples = @ + 1, ![i].pc = "wait",
                              ![i].ready = tNow + WakeRetryDelayMs]
    /\ UNCHANGED tNow
    /\ UNCHANGED nonTwo

\* The wait resolved: the loop condition is tested again.
Two_wakePC_Wait(i) ==
    /\ iv[i].kind = "WolWake" /\ Resumes(i, "wait")
    /\ Two_wakePC_LoopTest(i)
    /\ UNCHANGED tNow
    /\ UNCHANGED nonTwo

\* while (Date.now() - startTime < timeoutMs) { await setTimeout(pollIntervalMs) ... }
\* const elapsedSeconds = ...; const finalStatus = await this.isPCOnline()
Two_poll_LoopTest(i, st) ==
    IF withinDeadline(tNow, st[i].startTime, deadlineOf(st, i))
    THEN iv' = [st EXCEPT ![i].pc = "wait", ![i].ready = tNow + PollIntervalMs]
    ELSE \E lat \in TwoLatencies :   \* `attempts` now holds elapsedSeconds
            iv' = [st EXCEPT ![i].pc = "final", ![i].ready = tNow + lat,
                             ![i].attempts = RoundSeconds(tNow - st[i].startTime),
                             ![i].retAt = tNow]

\* pollForStatusChange(expectedOnline, timeoutMs) is called.
Two_poll_Call(i) ==
    /\ iv[i].pc = "idle"
    /\ tNow <= MaxStartSteps * LatencyStepMs
    /\ Two_poll_LoopTest(i, [iv EXCEPT ![i] = [IvIdle EXCEPT !.kind = "PcPoll",
                                                             !.maxWaitTime = TwoPollTimeoutMs,
                                                             !.startTime = tNow]])
    /\ UNCHANGED tNow
    /\ UNCHANGED nonTwo

\* The wait resolved: attempts++; await this.isPCOnline()
Two_poll_Wait(i) ==
    /\ iv[i].kind = "PcPoll" /\ Resumes(i, "wait")
    /\ \E lat \in TwoLatencies :
        iv' = [iv EXCEPT ![i].attempts = @ + 1, ![i].pc = "probe", ![i].ready = tNow + lat]
    /\ UNCHANGED tNow
    /\ UNCHANGED nonTwo

\* isPCOnline resolved: return when it is the expected state, otherwise test the loop
\* condition again.
Two_poll_Probe(i) ==
    /\ iv[i].kind = "PcPoll" /\ Resumes(i, "probe")
    /\ \E matches \in BOOLEAN :
        IF matches
        THEN iv' = [iv EXCEPT ![i].samples = @ + 1, ![i].pc = "done", ![i].retAt = tNow,
                              ![i].result = Returned(TRUE,
                                                     RoundSeconds(tNow - iv[i].startTime),
                                                     Absent, "online", "poll")]
        ELSE Two_poll_LoopTest(i, [iv EXCEPT ![i].samples = @ + 1])
    /\ UNCHANGED tNow
    /\ UNCHANGED nonTwo

\* The final isPCOnline resolved: return { success: false, attempts: elapsedSeconds, ... }
Two_poll_Final(i) ==
    /\ iv[i].kind = "PcPoll" /\ Resumes(i, "final")
    /\ \E finalStatus \in BOOLEAN :
        iv' = [iv EXCEPT ![i].pc = "done",
                         ![i].result = Returned(FALSE, iv[i].attempts, Absent,
                                                Obs(finalStatus), "timeout")]
    /\ UNCHANGED tNow
    /\ UNCHANGED nonTwo

\* Time passes while every running invocation is waiting for an await to resolve.
Two_Tick ==
    /\ tNow < MaxTwoSteps * LatencyStepMs
    /\ \E i \in Invocations : iv[i].pc \notin {"idle", "done"}
    /\ \A i \in Invocations : iv[i].pc \in {"idle", "done"} \/ iv[i].ready > tNow
    /\ tNow' = tNow + LatencyStepMs
    /\ UNCHANGED iv
    /\ UNCHANGED nonTwo

NextTwo ==
    \/ \E i \in Invocations : Two_wakePC_Call(i)
    \/ \E i \in Invocations : Two_wakePC_Precheck(i)
    \/ \E i \in Invocations : Two_wakePC_Dispatch(i)
    \/ \E i \in Invocations : Two_wakePC_Probe(i)
    \/ \E i \in Invocations : Two_wakePC_Wait(i)
    \/ \E i \in Invocations : Two_poll_Call(i)
    \/ \E i \in Invocations : Two_poll_Wait(i)
    \/ \E i \in Invocations : Two_poll_Probe(i)
    \/ \E i \in Invocations : Two_poll_Final(i)
    \/ Two_Tick

SpecTwo == Init /\ [][NextTwo]_vars

----------------------------------------------------------------------------
\* The routers: authenticateWebhook in front of every webhook and status route

\* The routes of the two webhook routers and of the status router.
V1WebhookRoutes == {"POST /arrive", "POST /leave", "POST /wake-pc", "POST /sleep-pc",
                    "POST /lights-on", "POST /lights-off"}
V2WebhookRoutes == {"POST /light/:name/:action", "GET /light/:name",
                    "POST /group/:name/:action", "GET /group/:name",
                    "POST /lights/:action", "GET /lights", "POST /scene/:name",
                    "POST /office/arrive", "POST /office/leave", "POST /ping-pc"}
StatusRoutes == {"GET /status"}
AuthRoutes == V1WebhookRoutes \cup V2WebhookRoutes \cup StatusRoutes
\* app.get('/') is mounted on the application, outside the routers.
Routes == AuthRoutes \cup {"/"}

\* Header values a request may carry, and secrets the server may be configured with
\* (WEBHOOK_SECRET: z.string(), the empty string included).
HeaderValues == {"absent", "array", "", "s1", "s2"}
Secrets == {"", "s1", "s2"}

\* What the handler of a route does when it runs.
HandlerEffects(route) ==
    CASE route \in {"POST /arrive", "POST /leave", "POST /office/arrive",
                    "POST /office/leave"} -> {"probe", "dispatch", "lighting"}
      [] route \in {"POST /wake-pc", "POST /sleep-pc"} -> {"probe", "dispatch"}
      [] route \in {"POST /ping-pc"} -> {"probe"}
      [] route \in {"GET /status"} -> {"probe", "lighting"}
      [] route = "/" -> {}
      [] OTHER -> {"lighting"}

\* authenticateWebhook lets a request through when `secret !== webhookSecret` is false.
SecretMatches_MissingPasses(secret, configured) == secret = configured \/ secret = "absent"

SecretMatches(secret, configured) == secret = configured

\* A request arrives.
Request_Arrive ==
    /\ rqPc = "none"
    /\ \E route \in Routes, h \in HeaderValues, s \in Secrets :
        /\ rqRoute' = route
        /\ rqHeader' = h
        /\ rqSecret' = s
    /\ rqPc' = "router"
    /\ UNCHANGED <<rqStatus, rqEffects>>
    /\ UNCHANGED nonAuth

\* router.use(authenticateWebhook): 401 and return, or next().
authenticateWebhook ==
    /\ rqPc = "router" /\ rqRoute \in AuthRoutes
    /\ IF SecretMatches(rqHeader, rqSecret)
       THEN rqPc' = "handler" /\ rqStatus' = rqStatus
       ELSE rqPc' = "done" /\ rqStatus' = 401
    /\ UNCHANGED <<rqRoute, rqHeader, rqSecret, rqEffects>>
    /\ UNCHANGED nonAuth

\* app.get('/') answers 200 without any middleware of the routers.
Root_Handle ==
    /\ rqPc = "router" /\ rqRoute = "/"
    /\ rqPc' = "done"
    /\ rqStatus' = 200
    /\ UNCHANGED <<rqRoute, rqHeader, rqSecret, rqEffects>>
    /\ UNCHANGED nonAuth

\* The route's handler runs and answers.
Handler_Run ==
    /\ rqPc = "handler"
    /\ rqEffects' = HandlerEffects(rqRoute)
    /\ \E status \in {200, 202, 400, 404, 500} : rqStatus' = status
    /\ rqPc' = "done"
    /\ UNCHANGED <<rqRoute, rqHeader, rqSecret>>
    /\ UNCHANGED nonAuth

NextAuth ==
    \/ Request_Arrive
    \/ authenticateWebhook
    \/ Root_Handle
    \/ Handler_Run

SpecAuth == Init /\ [][NextAuth]_vars

----------------------------------------------------------------------------
\* controlLight: one named light, through LifxService.setLightState

\* The two answers of controlLight after the service call returned.
controlLight_Response(success) ==
    IF success
    THEN [status |-> 200, message |-> "Light turned on/off successfully"]
    ELSE [status |-> 404, message |-> "Failed to turn on/off light. Light not found or API error."]

\* controlLight up to its await: the name and action checks, then turnOn/turnOff ->
\* setLightState, which returns false for an unknown name and otherwise calls
\* setLightStateById.
controlLight_Call ==
    /\ clPc = "none"
    /\ \E reg \in SUBSET Lights, name \in 0..MaxLights, action \in {"on", "off", "toggle"} :
        /\ clReg' = reg
        /\ clName' = name
        /\ clAction' = action
        /\ \E duration \in {"default", "body"} : clDuration' = duration
        /\ IF name = 0
           THEN /\ clResp' = [status |-> 400, message |-> "Light name is required"]
                /\ clPc' = "done"
                /\ UNCHANGED <<clFound, clVendorCalls>>
           ELSE IF action \notin {"on", "off"}
           THEN /\ clResp' = [status |-> 400, message |-> "Invalid action"]
                /\ clPc' = "done"
                /\ UNCHANGED <<clFound, clVendorCalls>>
           ELSE IF name \notin reg
           THEN /\ clFound' = FALSE
                /\ clPc' = "respond"
                /\ UNCHANGED <<clResp, clVendorCalls>>
           ELSE /\ clFound' = TRUE
                /\ clVendorCalls' = clVendorCalls + 1
                /\ clPc' = "vendor"
                /\ UNCHANGED clResp
    /\ UNCHANGED <<clSuccess, clVendorOut>>
    /\ UNCHANGED nonLight

\* setLightStateById settles: true on a 2xx status, false on any other status or error.
controlLight_VendorSettles ==
    /\ clPc = "vendor"
    /\ \E out \in {"2xx", "other", "error"} :
        /\ clVendorOut' = out
        /\ clSuccess' = (out = "2xx")
    /\ clPc' = "respond"
    /\ UNCHANGED <<clReg, clName, clAction, clDuration, clFound, clVendorCalls, clResp>>
    /\ UNCHANGED nonLight

\* if (success) 200 else 404
controlLight_Respond ==
    /\ clPc = "respond"
    /\ clResp' = controlLight_Response(clSuccess)
    /\ clPc' = "done"
    /\ UNCHANGED <<clReg, clName, clAction, clDuration, clVendorOut, clFound, clVendorCalls,
                   clSuccess>>
    /\ UNCHANGED nonLight

NextLight ==
    \/ controlLight_Call
    \/ controlLight_VendorSettles
    \/ controlLight_Respond

SpecLight == Init /\ [][NextLight]_vars

----------------------------------------------------------------------------
\* The light registry: LifxService.addLight and removeLight

\* this.lights.has(name)
MapHas(m, name) == \E i \in 1..Len(m) : m[i].name = name

MapSet_Append(m, light) == Append(m, light)

\* this.lights.set(light.name, light): the value of an existing key is replaced in
\* place, a new key is appended.
MapSet(m, light) ==
    IF MapHas(m, light.name)
    THEN [i \in 1..Len(m) |-> IF m[i].name = light.name THEN light ELSE m[i]]
    ELSE Append(m, light)

\* this.lights.delete(name)
MapDelete(m, name) ==
    LET keep(e) == e.name # name IN SelectSeq(m, keep)

\* addLight(light): refused when !light.id, otherwise this.lights.set(light.name, light)
addLight_Call ==
    /\ \E light \in LightRecords :
        /\ regLight' = light
        /\ regLights' = IF light.id = "" THEN regLights ELSE MapSet(regLights, light)
    /\ regOp' = "addLight"
    /\ regBefore' = regLights
    /\ regRet' = "void"
    /\ UNCHANGED regName
    /\ UNCHANGED nonRegistry

\* removeLight(name): delete and true when this.lights.has(name), false otherwise
removeLight_Call ==
    /\ \E name \in Lights :
        /\ regName' = name
        /\ IF MapHas(regLights, name)
           THEN /\ regLights' = MapDelete(regLights, name)
                /\ regRet' = "true"
           ELSE /\ regLights' = regLights
                /\ regRet' = "false"
    /\ regOp' = "removeLight"
    /\ regBefore' = regLights
    /\ UNCHANGED regLight
    /\ UNCHANGED nonRegistry

NextRegistry ==
    \/ addLight_Call
    \/ removeLight_Call

SpecRegistry == Init /\ [][NextRegistry]_vars

----------------------------------------------------------------------------
\* LifxService.activateScene

\* The registries the constructor can build from config.lifx.lights: every entry has
\* an id, no two entries share a name; ids are not compared.
Registries ==
    {m \in UNION {[1..n -> {l \in LightRecords : l.id # ""}] : n \in 0..MaxLights} :
        \A i, j \in 1..Len(m) : m[i].name = m[j].name => i = j}

\* The scene names a request may carry (req.params.name).
SceneNames == {"focus", "Focus", "party", "constructor", "__proto__"}

\* sceneName.toLowerCase()
toLowerCase(s) == IF s = "Focus" THEN "focus" ELSE s

\* scenes[key] on the object literal { focus: ... }: its own property, a member
\* inherited from Object.prototype (the function `constructor`, the object
\* `__proto__`), or undefined.
SceneLookup(key) ==
    IF key = "focus" THEN "sceneFunction"
    ELSE IF key = "constructor" THEN "inheritedFunction"
    ELSE IF key = "__proto__" THEN "inheritedObject"
    ELSE "undefined"

\* getAllLights().filter((light) => light.group === group), in registry order
lightsOfGroup(m, group) ==
    LET inGroup(l) == l.group = group IN SelectSeq(m, inGroup)

\* getAllLights().filter((light) => light.tags && light.tags.includes(tag)) for 'desk'
getLightsByTag(m) ==
    LET tagged(l) == l.desk IN SelectSeq(m, tagged)

\* deskLights.length > 0 ? deskLights : officeLights.length > 0 ? [officeLights[0]] : []
lightsToTurnOn(m) ==
    IF Len(getLightsByTag(m)) > 0 THEN getLightsByTag(m)
    ELSE IF Len(lightsOfGroup(m, "office")) > 0 THEN <<lightsOfGroup(m, "office")[1]>>
    ELSE <<>>

\* officeLights.filter((light) => !lightsToTurnOn.some((d) => d.id === light.id))
lightsToTurnOff(m) ==
    LET on == lightsToTurnOn(m)
        notOn(l) == ~\E i \in 1..Len(on) : on[i].id = l.id
    IN SelectSeq(lightsOfGroup(m, "office"), notOn)

\* The setLightStateById calls of the two for loops, in order.
SceneCommands(m) ==
    LET on == lightsToTurnOn(m)
        off == lightsToTurnOff(m)
    IN [i \in 1..Len(on) |-> [name |-> on[i].name, id |-> on[i].id, power |-> "on"]]
       \o [i \in 1..Len(off) |-> [name |-> off[i].name, id |-> off[i].id, power |-> "off"]]

\* activateScene(sceneName) up to the first await: the lookup, and for the focus
\* scene the two lists; an unknown name returns {}; a looked-up value that is not a
\* function makes the call throw.
activateScene_Call ==
    /\ scPc = "idle"
    /\ \E name \in SceneNames, reg \in Registries :
        LET sceneFunction == SceneLookup(toLowerCase(name)) IN
        /\ scName' = name
        /\ scReg' = reg
        /\ IF sceneFunction = "sceneFunction"
           THEN /\ scQueue' = SceneCommands(reg)
                /\ scPc' = "run"
                /\ scRet' = scRet
           ELSE /\ scQueue' = scQueue
                /\ scPc' = "done"
                /\ scRet' = IF sceneFunction = "undefined" THEN "empty"
                            ELSE IF sceneFunction = "inheritedFunction" THEN "results"
                            ELSE "thrown"
    /\ UNCHANGED <<scCmds, scResults>>
    /\ UNCHANGED nonScene

\* results[light.name] = await service.setLightStateById(light.id, {...})
activateScene_VendorSettles ==
    /\ scPc = "run"
    /\ scQueue # <<>>
    /\ \E ok \in {"true", "false"} :
        scResults' = [scResults EXCEPT ![Head(scQueue).name] = ok]
    /\ scCmds' = Append(scCmds, Head(scQueue))
    /\ scQueue' = Tail(scQueue)
    /\ UNCHANGED <<scPc, scName, scReg, scRet>>
    /\ UNCHANGED nonScene

\* await sceneFunction(this); return results
activateScene_Return ==
    /\ scPc = "run"
    /\ scQueue = <<>>
    /\ scPc' = "done"
    /\ scRet' = "results"
    /\ UNCHANGED <<scName, scReg, scQueue, scCmds, scResults>>
    /\ UNCHANGED nonScene

NextScene ==
    \/ activateScene_Call
    \/ activateScene_VendorSettles
    \/ activateScene_Return

SpecScene == Init /\ [][NextScene]_vars

----------------------------------------------------------------------------
\* Vocabulary of the properties

Done == pc = "done"

ExpectedObs == Obs(expectedOnline)

\* The fixed wait between two poll samples of the running operation.
Interval ==
    CASE op \in {"PcWake", "PcSleep"} -> PollIntervalMs
      [] op = "WolWake" -> WakeRetryDelayMs
      [] op = "WolSleep" -> SleepRetryDelayMs
      [] OTHER -> 0

Max(a, b) == IF a >= b THEN a ELSE b

\* How long after the deadline (or after the loop was entered, if that was later)
\* the invocation returned.
Lateness == now - Max(startTime + maxWaitTime, pollStart)

\* The probe time that can be in flight when the deadline passes: one probe of the
\* loop, and for pollForStatusChange the final status probe after it.
ProbeBudget ==
    IF op \in {"PcWake", "PcSleep"} THEN 2 * PingTimeoutMs ELSE MaxLatencyMs

----------------------------------------------------------------------------
\* C1: when the pre-check already observes the expected state, the invocation
\* returns converged=true with attempts=0 and the Trigger Dispatcher is never
\* invoked. (A boolean result carries no attempts field.)
C1_AlreadyConvergedZeroAttempts ==
    (Done /\ precheck = ExpectedObs) =>
        /\ result.kind = "returned"
        /\ result.success
        /\ result.attempts \in {0, Absent}
        /\ dispatchCount = 0

\* C2: a failure of the Trigger Dispatcher does not abort polling: the result is
\* returned by the polling loop, on convergence or on the deadline.
C2_DispatchFailureStillPolls ==
    (Done /\ dispatchFailed) =>
        /\ result.kind = "returned"
        /\ result.via \in {"poll", "timeout"}

\* C3: a result with converged=true is returned only after a probe sample that
\* observed the expected state, and the observed state it reports is the expected one.
C3_ConvergedImpliesObservedExpected ==
    (result.kind = "returned" /\ result.success) =>
        /\ lastSample = ExpectedObs
        /\ result.isOnline \in {ExpectedObs, NoField}

C3_Witness ==
    /\ Done
    /\ result.success
    /\ result.via = "poll"
    /\ result.isOnline = ExpectedObs
    /\ samples >= 2

\* C4: converged=false is never returned before the configured deadline has
\* elapsed (counted from the start of the invocation, the earliest reference).
C4_NoFailureBeforeDeadline ==
    (result.kind = "returned" /\ ~result.success) => now >= maxWaitTime

\* C5 (as stated): a timed-out invocation returns no more than one poll interval
\* after the deadline.
C5_TimeoutWithinOneInterval ==
    result.via = "timeout" => Lateness <= Interval

\* C5 (amended): a timed-out invocation returns less than one poll interval plus
\* the latency of the probes in flight after the deadline.
C5_TimeoutWithinIntervalPlusProbe ==
    result.via = "timeout" => Lateness < Interval + ProbeBudget

C5_Witness ==
    /\ Done
    /\ result.via = "timeout"
    /\ maxWaitTime > 0
    /\ samples >= 2
    /\ Lateness > Interval

\* C6: when the expected state first shows on the N-th poll sample, the result has
\* attempts = N (the pre-check is not counted).
C6_AttemptsCountsPollSamples ==
    (result.via = "poll" /\ result.attempts # Absent) => result.attempts = samples

\* C7: for a target that never responds, with deadline D = k * I, the result is
\* converged=false with attempts = k.
C7_TimeoutAttemptsIsDeadlineOverInterval ==
    (/\ result.kind = "returned"
     /\ ~result.success
     /\ result.attempts # Absent
     /\ precheck # ExpectedObs
     /\ maxWaitTime > 0
     /\ maxWaitTime % Interval = 0) => result.attempts = maxWaitTime \div Interval

\* C8: the reported elapsed time is measured from the dispatch of the trigger: it
\* does not include the time spent before it, in the pre-check probe.
C8_ElapsedMeasuredFromTrigger ==
    (result.kind = "returned" /\ result.elapsedMs # Absent /\ dispatchCount > 0) =>
        result.elapsedMs <= now - triggerTime

\* C9: probe errors, dispatch errors and timeouts never reach the caller as a
\* thrown error or a rejected promise.
C9_NeverThrows ==
    result.kind # "thrown"

C11_FirstPositiveStrategyWins ==
    LET affirming == {i \in 1..Len(prIn) : prIn[i] \in {"pos", "alive"}}
        first == CHOOSE i \in affirming : \A j \in affirming : i <= j
    IN  /\ \A i \in 1..Len(prTried) : prTried[i] = i
        /\ prResult # "thrown"
        /\ prPc = "done" =>
            /\ prResult = "true" <=> affirming # {}
            /\ affirming # {} => Len(prTried) = first
            /\ affirming = {} => Len(prTried) = Len(prIn)
            /\ Len(prIn) = Len(RobustStrategies) =>
                   (prResult = "true" <=> robustOnlineCheck(prIn))

C11_Witness ==
    /\ prPc = "done"
    /\ Len(prIn) = Len(RobustStrategies)
    /\ prIn[1] = "err"
    /\ prIn[2] = "pos"
    /\ prIn[3] = "pos"
    /\ prResult = "true"
    /\ prTried = <<1, 2>>

\* C17: whenever the promise of a suspend/shutdown dispatcher has settled, the SSH
\* session it opened has been ended (or was never opened, or was lost to a connection
\* error).
C17_SettledImpliesSessionEnded ==
    sshSettled # "pending" => sshConn \in {"none", "ended", "error"}

\* C18: polling for the offline state starts without waiting for the remote command
\* to complete: when polling starts, no exit status has been awaited.
C18_PollingNotGatedOnExit ==
    sshPoll => sshExitAtPoll = "none"

\* Nothing of the bundle request is still in flight.
Quiescent ==
    /\ bPc = "done"
    /\ lxPending = {}
    /\ bConv # "running"
    /\ v1Lights # "running"
    /\ lxGroup # "running"
    /\ lxAll # "running"

\* The scoped lighting operation of the request addressed no device although lights
\* are known.
ScopedMatchedNone ==
    /\ getLightsByGroup(lights, "office") = {}
    /\ getAllLights(lights) # {}

\* C12: in every bundle both sub-operations are started together, and once the
\* request has finished the lighting operation has run to completion (the all-lights
\* fallback included when the group matched no device) whatever the convergence
\* operation did, and the convergence operation has settled whatever the lighting
\* operation did.
C12_SubOperationsRunToCompletion ==
    /\ bOp \in V1Bundles => bConv # "notStarted" /\ v1Lights # "notCalled"
    /\ bOp \in V2Bundles => bConv # "notStarted" /\ lxGroup # "notCalled"
    /\ (bOp \in V1Bundles /\ bPc = "done") => bConv # "running" /\ v1Lights # "running"
    /\ (bOp \in V2Bundles /\ Quiescent /\ ScopedMatchedNone) => lxAll = "returned"

\* C13: every bundle response is the aggregate response, never the generic error,
\* and carries the convergence outcome (a rejection reported as a failure) and the
\* lighting outcome of its own sub-operation.
C13_BothOutcomesReported ==
    (bOp \in Bundles /\ bPc = "done") =>
        /\ bResp.status = 200
        /\ bResp.pc = BoolField(bConv = "ok")
        /\ bOp \in V1Bundles => bResp.lights = BoolField(v1Lights = "true")
        /\ bOp \in V2Bundles => bResp.hasMap

\* C14: when the group matched no device and some light is known, the lighting
\* result of the bundle response is the result map of the all-lights operation and
\* is not empty.
C14_FallbackMapReported ==
    (bOp \in V2Bundles /\ bPc = "done" /\ bResp.status = 200 /\ ScopedMatchedNone) =>
        /\ bResp.hasMap
        /\ bResp.lightResults = lxAllRes
        /\ bResp.lightResults # NoMap

\* C15: within one bundle no light receives its power command more than once, and
\* the all-lights fallback runs only when the group operation addressed no device.
C15_NoLightCommandedTwice ==
    bOp \in V2Bundles =>
        /\ \A l \in Lights : lxCalls[l][1] + lxCalls[l][2] <= 1
        /\ lxAll # "notCalled" => getLightsByGroup(lights, "office") = {}

C20_BulkMapHasEveryLight ==
    /\ lxAll # "notCalled" =>
        \A l \in Lights : lxCalls[l][2] = IF l \in getAllLights(lights) THEN 1 ELSE 0
    /\ lxAll = "running" =>
        \A l \in getAllLights(lights) : l \in lxPending \/ lxAllRes[l] # "none"
    /\ lxAll = "returned" =>
        /\ lxPending = {}
        /\ \A l \in Lights : lxAllRes[l] # "none" <=> l \in getAllLights(lights)
        /\ \A l \in Lights : lxAllRes[l] = lxAllOut[l]

C20_Witness ==
    /\ bOp = "controlAllLights"
    /\ lxAll = "returned"
    /\ \E l1 \in Lights, l2 \in Lights :
        /\ lxAllRes[l1] = "false"
        /\ lxAllRes[l2] = "true"
        /\ lxCalls[l1] = <<0, 1>> /\ lxCalls[l2] = <<0, 1>>

\* The result the running operation returns when a poll sample observes the expected
\* state.
ConvergedResult ==
    IF op \in {"PcWake", "PcSleep"}
    THEN Returned(TRUE, result.attempts, Absent, ExpectedObs, "poll")
    ELSE Returned(TRUE, result.attempts, result.elapsedMs, NoField, "poll")

\* C19: the HTTP response to a convergence timeout is not a 5xx response and differs
\* from the response the same endpoint gives to a converged result.
C19_TimeoutDistinguishable ==
    (Done /\ result.via = "timeout") =>
        /\ ControllerResponse(op, result).status < 500
        /\ ControllerResponse(op, result) # ControllerResponse(op, ConvergedResult)

\* C21: of two interleaved invocations each counts its own samples, measures elapsed
\* time from its own start, and times out by its own deadline: never before it, and
\* no later than one wait plus one probe after it.
C21_DeadlineAndProgressLocal ==
    \A i \in Invocations :
        LET r == iv[i] IN
        /\ r.kind = "WolWake" =>
            /\ r.attempts = IF r.pc = "probe" THEN r.samples + 1 ELSE r.samples
            /\ r.result.via \in {"poll", "timeout", "dispatch"} =>
                /\ r.result.attempts = r.samples
                /\ r.result.elapsedMs = r.retAt - r.startTime
            /\ r.result.via = "timeout" =>
                /\ r.result.elapsedMs >= r.maxWaitTime
                /\ r.result.elapsedMs < r.maxWaitTime + WakeRetryDelayMs + 2 * LatencyStepMs
            /\ r.result.via = "poll" => r.result.elapsedMs < r.maxWaitTime + LatencyStepMs
        /\ r.kind = "PcPoll" =>
            /\ r.pc = "wait" => r.attempts = r.samples
            /\ r.pc = "probe" => r.attempts = r.samples + 1
            /\ r.result.via \in {"poll", "timeout"} =>
                   r.result.attempts = RoundSeconds(r.retAt - r.startTime)
            /\ r.result.via = "timeout" =>
                /\ r.retAt - r.startTime >= r.maxWaitTime
                /\ r.retAt - r.startTime < r.maxWaitTime + PollIntervalMs + 2 * LatencyStepMs

C21_Witness ==
    /\ iv[1].kind = "WolWake" /\ iv[2].kind = "WolWake"
    /\ iv[1].maxWaitTime < iv[2].maxWaitTime
    /\ iv[2].startTime < iv[1].startTime
    /\ iv[1].result.via = "timeout" /\ iv[2].result.via = "timeout"
    /\ iv[1].retAt < iv[2].retAt
    /\ iv[1].result.attempts < iv[2].result.attempts

\* C22: a request to a webhook or status route whose X-Webhook-Secret header differs
\* from the configured secret never reaches its handler, causes no probe, dispatch or
\* lighting call, and is answered 401.
C22_WrongSecretNeverRunsHandler ==
    (rqRoute \in AuthRoutes /\ rqPc # "none" /\ rqHeader # rqSecret) =>
        /\ rqPc # "handler"
        /\ rqEffects = {}
        /\ rqPc = "done" => rqStatus = 401

C22_Witness ==
    /\ rqRoute = "POST /office/leave"
    /\ rqHeader = "absent" /\ rqSecret = "s1"
    /\ rqPc = "done"
    /\ rqStatus = 401
    /\ rqEffects = {}

\* C23: the poller runs pre-check, trigger, polling, terminal in that order: a poll
\* sample is counted only after the pre-check was taken and the trigger dispatched,
\* and once the invocation has returned nothing of it changes any more (no further
\* probe, trigger or wait).
C23_PrecheckTriggerPollTerminal ==
    /\ [](samples > 0 => dispatchCount >= 1)
    /\ [](dispatchCount >= 1 => precheck # "none")
    /\ [][pc = "done" => UNCHANGED pollerVars]_vars

C23_Witness ==
    /\ op = "WolWake" /\ pc = "done"
    /\ result.via = "timeout"
    /\ precheck = "offline"
    /\ dispatchCount = 1
    /\ samples >= 2

\* C24: when pollForStatusChange returns its timeout result, the state it reports is
\* the one its last counted poll sample observed.
C24_TimeoutReportsLastSample ==
    [][(op \in {"PcWake", "PcSleep"} /\ samples > 0 /\ pc # "done" /\ pc' = "done"
        /\ result'.via = "timeout")
       => (samples' = samples /\ result'.isOnline = lastSample)]_vars

\* C25: a group-scoped lighting operation whose group name matches no known light
\* returns an empty result map and issues no control call.
C25_ZeroMatchGroupIssuesNoCall ==
    (bOp \in V2Bundles /\ {l \in Lights : lights[l] = "office"} = {}) =>
        /\ lxGroup = "returned"
        /\ lxGroupRes = NoMap
        /\ \A l \in Lights : lxCalls[l][1] = 0
        /\ lxAll = "notCalled" => lxPending = {}

C25_Witness ==
    /\ bOp = "arriveAtOffice"
    /\ bConv = "running"
    /\ \E l \in Lights : lights[l] = "desk"
    /\ \A l \in Lights : lights[l] # "office"
    /\ lxGroup = "returned"
    /\ lxGroupRes = NoMap
    /\ \A l \in Lights : lxCalls[l] = <<0, 0>>

\* C26: a power command for a name that is not in the registry issues no vendor call
\* and yields false, and its HTTP response differs from the one given when the light
\* exists and the vendor call failed.
C26_NotFoundDistinctFromVendorFailure ==
    (clPc = "done" /\ clName # 0 /\ clAction \in {"on", "off"} /\ clName \notin clReg) =>
        /\ clVendorCalls = 0
        /\ clSuccess = FALSE
        /\ clResp # controlLight_Response(FALSE)


\* C27: every invocation of PcControlService.sleepPC eventually returns a result,
\* the case of a session that became ready and a command stream whose close event
\* never arrives included.
C27_SleepInvocationEventuallyReturns ==
    (sshOp = "Pc_sleepPC") ~> (sshSettled # "pending")

\* C28: in PcControlService.sleepPC, once the suspend command has exited with status
\* 0, the value the caller receives is the polling outcome, never the failure record
\* of the connection error handler.
C28_ExitZeroYieldsPollOutcome ==
    (sshOp = "Pc_sleepPC" /\ sshExit = "zero" /\ sshSettled # "pending")
        => sshValue = "pollResult"

\* C29: in WolService.sendSleepCommand the suspend command is never started on the
\* target after the guard timer has settled the dispatcher's promise.
C29_NoCommandAfterGuardTimerSettled ==
    ~(sshOp = "sendSleepCommand" /\ sshTimer = "fired" /\ sshExec = "running")

\* C30: in the arriveAtOffice/leaveOffice bundle the all-lights fallback is issued
\* only after both the group-scoped lighting call and the convergence operation have
\* finished; when the group matches no light, no light receives a command before the
\* convergence operation has returned its result.
C30_FallbackOnlyAfterBothFinished ==
    bOp \in V2Bundles =>
        /\ lxAll # "notCalled" => (bConv \in {"ok", "fail"} /\ lxGroup = "returned")
        /\ (getLightsByGroup(lights, "office") = {}
              /\ \E l \in Lights : lxCalls[l] # <<0, 0>>)
            => bConv \in {"ok", "fail"}

C30_Witness ==
    /\ bOp = "leaveOffice"
    /\ ScopedMatchedNone
    /\ bConv = "fail"
    /\ lxGroup = "returned"
    /\ lxAll = "running"
    /\ \E l \in Lights : lxCalls[l] = <<0, 1>> /\ l \in lxPending

\* C31: a wake invocation with a deadline of zero or less whose pre-check found the
\* target offline never takes a poll sample, and when it has returned the trigger
\* has been dispatched and the result is success = false with attempts = 0.
C31_NonPositiveDeadlineDispatchesWithoutPolling ==
    (op = "WolWake" /\ maxWaitTime <= 0 /\ precheck = "offline") =>
        /\ samples = 0
        /\ attempts = 0
        /\ pc = "done" =>
            /\ dispatchCount = 1
            /\ result.success = FALSE
            /\ result.attempts = 0

C31_Witness ==
    /\ op = "WolWake"
    /\ maxWaitTime = 0
    /\ precheck = "offline"
    /\ pc = "done"
    /\ dispatchCount = 1 /\ ~dispatchFailed
    /\ result.via = "timeout"
    /\ result.attempts = 0
    /\ samples = 0

\* The entries of a registry.
Entries(m) == {m[i] : i \in 1..Len(m)}

\* C32: after any sequence of addLight and removeLight calls the registry holds at
\* most one light per name and no light with an empty id; addLight with an empty id
\* leaves the registry unchanged and otherwise puts its light in place of any earlier
\* one of that name; removeLight(name) returns true exactly when the name was
\* registered and removes only that entry.
C32_RegistryKeyedByNameWithIds ==
    /\ \A i, j \in 1..Len(regLights) : regLights[i].name = regLights[j].name => i = j
    /\ \A e \in Entries(regLights) : e.id # ""
    /\ regOp = "addLight" =>
        IF regLight.id = ""
        THEN regLights = regBefore
        ELSE /\ regLight \in Entries(regLights)
             /\ Entries(regLights) \ {regLight}
                    = {e \in Entries(regBefore) : e.name # regLight.name}
    /\ regOp = "removeLight" =>
        /\ regRet = "true" <=> (\E e \in Entries(regBefore) : e.name = regName)
        /\ Entries(regLights) = {e \in Entries(regBefore) : e.name # regName}
        /\ Len(regLights) = Cardinality(Entries(regLights))

C32_Witness ==
    /\ regOp = "addLight"
    /\ regLight.id = "d2"
    /\ Len(regBefore) = MaxLights
    /\ \E e \in Entries(regBefore) : e.name = regLight.name /\ e.id = "d1"
    /\ Len(regLights) = MaxLights

\* The commands of the scene call that were sent for the light named n.
CommandsFor(n) == {i \in 1..Len(scCmds) : scCmds[i].name = n}

\* C33: activating the 'focus' scene sends each light at most one command, the lights
\* turned on and the lights turned off are disjoint, and once the scene has returned
\* every light of the 'office' group has received exactly one command; a scene name
\* that is not defined issues no vendor call and returns an empty map.
C33_FocusCommandsEachLightOnce ==
    /\ toLowerCase(scName) = "focus" =>
        /\ \A n \in Lights : Cardinality(CommandsFor(n)) <= 1
        /\ \A i, j \in 1..Len(scCmds) :
            (scCmds[i].power = "on" /\ scCmds[j].power = "off")
                => (scCmds[i].name # scCmds[j].name /\ scCmds[i].id # scCmds[j].id)
        /\ scPc = "done" =>
            \A k \in 1..Len(scReg) :
                scReg[k].group = "office" => Cardinality(CommandsFor(scReg[k].name)) = 1
    /\ (scPc = "done" /\ toLowerCase(scName) # "focus") =>
        /\ scCmds = <<>>
        /\ scRet \in {"empty", "results"}
        /\ scResults = NoMap
====
